---- MODULE Spec2Model ----
(***************************************************************************)
(* Model of the meridian schema migration: the entity metadata registered  *)
(* by the decorators, the DDL generators of sql/migration.ts and the       *)
(* runMigration driver of sql/run-migration.ts.                            *)
(*                                                                         *)
(* A generated script is a sequence of lines.  Every line is a record with *)
(* a kind; a statement line carries the identifiers the statement names.   *)
(* Comment lines and blank lines are lines of the script like any other,   *)
(* so that trimming and comparing the script is decided by the model.      *)
(***************************************************************************)
EXTENDS Integers, Sequences, FiniteSets, TLC

(***************************************************************************)
(* Bounds                                                                  *)
(***************************************************************************)
\* longest entity array handed to generateMigrationSQL
MaxEntities == 2

\* another session commits at most this many DDL statements during a run
MaxOtherDdl == 1

(***************************************************************************)
(* Entity classes: the metadata the decorators leave on each constructor.  *)
(* A class is decorated with @Table or is an abstract ancestor; Parent is  *)
(* Object.getPrototypeOf(class), "Function" ending the chain.              *)
(***************************************************************************)
NoDefault == << >>
NowDefault == <<"n", "o", "w", "(", ")">>

Col(key, name, primary, nullable, unique, type, default) ==
    [key |-> key, name |-> name, primary |-> primary, nullable |-> nullable,
     unique |-> unique, type |-> type, default |-> default, isVector |-> FALSE]

\* @VectorColumn stores {name: toSnakeCase(propertyKey), isVector: true}
VecCol(key, name) ==
    [key |-> key, name |-> name, primary |-> FALSE, nullable |-> FALSE,
     unique |-> FALSE, type |-> "undefined", default |-> NoDefault, isVector |-> TRUE]

Fk(key, tableName, columnName) ==
    [key |-> key, tableName |-> tableName, columnName |-> columnName]

Vec(key, dimensions) == [key |-> key, dimensions |-> dimensions]

IdCol == Col("id", "id", TRUE, FALSE, FALSE, "text", NowDefault)

\* the classes handed to the generators as entities of their own
Classes ==
    {"User", "Post", "Parent", "Child", "Category", "Embedding",
     "Orphan", "BrokenVec"}

\* abstract ancestors, declared without @Table
AbstractClasses == {"BaseEntity", "UserOwnedEntity", "EmbeddedEntity"}

\* entities that extend an ancestor
DerivedClasses == {"Note", "Draft", "Chunk"}

\* an entity with two foreign keys and one without a primary key
PlainClasses == {"Like", "Audit"}

AllClasses == Classes \cup AbstractClasses \cup DerivedClasses \cup PlainClasses

Parent ==
    [c \in AllClasses |->
        CASE c = "UserOwnedEntity" -> "BaseEntity"
          [] c = "Note" -> "UserOwnedEntity"
          [] c = "Draft" -> "BaseEntity"
          [] c = "Chunk" -> "EmbeddedEntity"
          [] OTHER -> "Function"]

HasTable ==
    [c \in AllClasses |-> c \notin AbstractClasses]

OwnTableName ==
    [c \in AllClasses |->
        CASE c = "User" -> "users"
          [] c = "Post" -> "posts"
          [] c = "Parent" -> "parent"
          [] c = "Child" -> "child"
          [] c = "Category" -> "categories"
          [] c = "Embedding" -> "embeddings"
          [] c = "Orphan" -> "orphans"
          [] c = "BrokenVec" -> "broken_vecs"
          [] c = "Note" -> "notes"
          [] c = "Draft" -> "drafts"
          [] c = "Chunk" -> "chunks"
          [] c = "Like" -> "likes"
          [] c = "Audit" -> "audits"
          [] OTHER -> "undefined"]

\* what the property decorators of each class put in its columns object; Draft
\* declares id again, as a uuid
OwnColumns ==
    [c \in AllClasses |->
        CASE c = "User" ->
               <<IdCol, Col("email", "email", FALSE, FALSE, TRUE, "text", NoDefault)>>
          [] c = "Post" ->
               <<IdCol, Col("userId", "user_id", FALSE, FALSE, FALSE, "text", NoDefault)>>
          [] c = "Parent" ->
               <<IdCol, Col("childId", "child_id", FALSE, TRUE, FALSE, "text", NoDefault)>>
          [] c = "Child" ->
               <<IdCol, Col("parentId", "parent_id", FALSE, FALSE, FALSE, "text", NoDefault)>>
          [] c = "Category" ->
               <<IdCol, Col("parentId", "parent_id", FALSE, TRUE, FALSE, "text", NoDefault)>>
          [] c = "Embedding" ->
               <<IdCol, VecCol("embedding", "embedding")>>
          [] c = "Orphan" -> <<IdCol>>
          [] c = "BrokenVec" -> <<IdCol>>
          [] c = "BaseEntity" -> <<IdCol>>
          [] c = "UserOwnedEntity" ->
               <<Col("userId", "user_id", FALSE, FALSE, FALSE, "text", NoDefault)>>
          [] c = "Note" ->
               <<Col("title", "title", FALSE, FALSE, FALSE, "text", NoDefault)>>
          [] c = "Draft" ->
               <<Col("id", "id", TRUE, FALSE, FALSE, "uuid", NoDefault),
                 Col("body", "body", FALSE, TRUE, FALSE, "text", NoDefault)>>
          [] c = "Like" ->
               <<IdCol,
                 Col("commentId", "comment_id", FALSE, FALSE, FALSE, "text", NoDefault),
                 Col("userId", "user_id", FALSE, FALSE, FALSE, "text", NoDefault)>>
          [] c = "Audit" ->
               <<Col("message", "message", FALSE, TRUE, FALSE, "text", NoDefault)>>
          [] c = "EmbeddedEntity" -> <<IdCol, VecCol("embedding", "embedding")>>
          [] c = "Chunk" ->
               <<Col("text", "text", FALSE, FALSE, FALSE, "text", NoDefault)>>]

OwnForeignKeys ==
    [c \in AllClasses |->
        CASE c = "Post" -> <<Fk("userId", "users", "id")>>
          [] c = "Parent" -> <<Fk("childId", "child", "id")>>
          [] c = "Child" -> <<Fk("parentId", "parent", "id")>>
          [] c = "Category" -> <<Fk("parentId", "categories", "id")>>
          [] c = "Orphan" -> <<Fk("ownerId", "users", "id")>>
          [] c = "UserOwnedEntity" -> <<Fk("userId", "users", "id")>>
          [] c = "Like" ->
               <<Fk("commentId", "comments", "id"), Fk("userId", "users", "id")>>
          [] OTHER -> << >>]

OwnVectorColumns ==
    [c \in AllClasses |->
        CASE c = "Embedding" -> <<Vec("embedding", 1536)>>
          [] c = "BrokenVec" -> <<Vec("embedding", 1536)>>
          [] c = "EmbeddedEntity" -> <<Vec("embedding", 1536)>>
          [] OTHER -> << >>]

(***************************************************************************)
(* The columns objects are live: columnsMetadata holds, for every class,   *)
(* the present content of the object its decorators registered.            *)
(***************************************************************************)
VARIABLE columnsMetadata

(***************************************************************************)
(* Reflect.getMetadata(key, class): the class's own metadata when it has   *)
(* any under that key, else its prototype's.  @Table defines all three     *)
(* keys on the class; a property decorator defines its own key.            *)
(***************************************************************************)
HasOwnMetadata(key, c) ==
    \/ HasTable[c]
    \/ key = "columns" /\ OwnColumns[c] # << >>
    \/ key = "foreign_keys" /\ OwnForeignKeys[c] # << >>
    \/ key = "vector_columns" /\ OwnVectorColumns[c] # << >>

\* OwnMetadata with one columns object shared by every class
SharedMetadata(key, c) ==
    CASE key = "columns" ->
           columnsMetadata["User"] \o columnsMetadata["Note"]
           \o columnsMetadata["Draft"] \o columnsMetadata["Like"]
           \o columnsMetadata["Audit"]
      [] key = "foreign_keys" -> OwnForeignKeys[c]
      [] key = "vector_columns" -> OwnVectorColumns[c]

OwnMetadata(key, c) ==
    CASE key = "columns" -> columnsMetadata[c]
      [] key = "foreign_keys" -> OwnForeignKeys[c]
      [] key = "vector_columns" -> OwnVectorColumns[c]

RECURSIVE getMetadata(_, _)
getMetadata(key, c) ==
    IF c = "Function" THEN << >>
    ELSE IF HasOwnMetadata(key, c) THEN OwnMetadata(key, c)
    ELSE getMetadata(key, Parent[c])

RECURSIVE getTableName(_)
getTableName(c) ==
    IF c = "Function" THEN "undefined"
    ELSE IF HasTable[c] THEN OwnTableName[c]
    ELSE getTableName(Parent[c])

Keys(entries) == {entries[i].key : i \in 1..Len(entries)}

HasKey(entries, key) == key \in Keys(entries)

Lookup(entries, key) ==
    entries[CHOOSE i \in 1..Len(entries) : entries[i].key = key]

\* the entries of `more` whose key `result` does not hold yet, appended in order
RECURSIVE MergeMissing(_, _)
MergeMissing(result, more) ==
    IF more = << >> THEN result
    ELSE MergeMissing(
           IF HasKey(result, Head(more).key) THEN result
           ELSE Append(result, Head(more)),
           Tail(more))

RECURSIVE WalkHierarchy(_, _)
WalkHierarchy(result, currentClass) ==
    IF currentClass = "Function" THEN result
    ELSE WalkHierarchy(MergeMissing(result, getMetadata("columns", currentClass)),
                       Parent[currentClass])

getAllColumnsFromHierarchy(entityClass) == WalkHierarchy(<< >>, entityClass)

(***************************************************************************)
(* The column resolver of the row operations (findBy, listAll, save,       *)
(* deleteBy, mapRowToEntity).  It starts from the object registered for    *)
(* the class, not from a copy, and Object.assign()s every ancestor's       *)
(* columns onto it.                                                        *)
(***************************************************************************)
\* Object.assign(target, source): a key the target holds takes the source's
\* value where it stands, a new key goes to the end
RECURSIVE Assign(_, _)
Assign(target, source) ==
    IF source = << >> THEN target
    ELSE Assign(
           IF HasKey(target, Head(source).key)
           THEN [i \in 1..Len(target) |->
                    IF target[i].key = Head(source).key THEN Head(source)
                    ELSE target[i]]
           ELSE Append(target, Head(source)),
           Tail(source))

\* while (proto && proto.name) { Object.assign(columns, parentColumns) ... }
RECURSIVE AssignAncestors(_, _)
AssignAncestors(columns, proto) ==
    IF proto = "Function" THEN columns
    ELSE AssignAncestors(Assign(columns, getMetadata("columns", proto)),
                         Parent[proto])

\* what the resolver of the row operations returns
getAllColumnsFromHierarchyOps(entityClass) ==
    AssignAncestors(getMetadata("columns", entityClass), Parent[entityClass])

\* the class whose registered object Reflect.getMetadata(key, c) hands out
RECURSIVE MetadataOwner(_, _)
MetadataOwner(key, c) ==
    IF c = "Function" THEN "Function"
    ELSE IF HasOwnMetadata(key, c) THEN c
    ELSE MetadataOwner(key, Parent[c])

\* the columns objects after the resolver of the row operations ran for a
\* class: the object it was handed now holds what it returned
AfterResolve(entityClass) ==
    LET owner == MetadataOwner("columns", entityClass)
    IN  IF owner = "Function" THEN columnsMetadata
        ELSE [columnsMetadata EXCEPT
                ![owner] = getAllColumnsFromHierarchyOps(entityClass)]

(***************************************************************************)
(* Identifier/literal codec.  A string value is a sequence of characters.  *)
(***************************************************************************)
Letters ==
    {"a", "b", "c", "d", "e", "f", "g", "h", "i", "j", "k", "l", "m", "n", "o",
     "p", "q", "r", "s", "t", "u", "v", "w", "x", "y", "z"}

Digits == {"0", "1", "2", "3", "4", "5", "6", "7", "8", "9"}

WordChars == Letters \cup Digits \cup {"_"}

\* /^[a-zA-Z0-9_]+\(.*\)$/ : "." matches any character but a line break
isSqlFunction(value) ==
    \E i \in 1..Len(value) :
        /\ \A j \in 1..i : value[j] \in WordChars
        /\ i + 2 <= Len(value)
        /\ value[i + 1] = "("
        /\ value[Len(value)] = ")"
        /\ \A j \in (i + 2)..(Len(value) - 1) : value[j] # "\n"

RECURSIVE DoubleQuotes(_)
DoubleQuotes(value) ==
    IF value = << >> THEN << >>
    ELSE (IF Head(value) = "'" THEN <<"'", "'">> ELSE <<Head(value)>>)
         \o DoubleQuotes(Tail(value))

\* escapeSqlString without the replace
wrapOnly(value) == <<"'">> \o value \o <<"'">>

escapeSqlString(value) == <<"'">> \o DoubleQuotes(value) \o <<"'">>

(***************************************************************************)
(* Lines of a script                                                       *)
(***************************************************************************)
ExtensionLine == [kind |-> "CREATE EXTENSION", table |-> "vector"]

BlankLine == [kind |-> "blank", table |-> ""]

CommentLine(text, tableName) ==
    [kind |-> "comment", table |-> tableName, text |-> text]

\* the DEFAULT clause of CREATE TABLE: jsonb literals are cast, a function call
\* is emitted bare, anything else as an escaped literal
CreateDefault(metadata) ==
    IF metadata.default = NoDefault THEN [mode |-> "none", text |-> << >>]
    ELSE IF metadata.type = "jsonb"
         THEN [mode |-> "jsonb", text |-> metadata.default]
    ELSE IF isSqlFunction(metadata.default)
         THEN [mode |-> "bare", text |-> metadata.default]
    ELSE [mode |-> "literal", text |-> escapeSqlString(metadata.default)]

\* the DEFAULT clause of ADD COLUMN: no jsonb handling there
AlterDefault(metadata) ==
    IF metadata.default = NoDefault THEN [mode |-> "none", text |-> << >>]
    ELSE IF isSqlFunction(metadata.default)
         THEN [mode |-> "bare", text |-> metadata.default]
    ELSE [mode |-> "literal", text |-> escapeSqlString(metadata.default)]

ColumnDef(metadata, default) ==
    [kind |-> "column", name |-> metadata.name, type |-> metadata.type,
     notNull |-> ~metadata.nullable, unique |-> metadata.unique,
     default |-> default]

PrimaryKeyDef(cols) == [kind |-> "PRIMARY KEY", cols |-> cols]

ForeignKeyDef(tableName, columnName, metadata) ==
    [kind |-> "FOREIGN KEY", constraint |-> <<"fk", tableName, columnName>>,
     column |-> columnName, refTable |-> metadata.tableName,
     refColumn |-> metadata.columnName]

\* the "," of columnDefinitions.join(',\n')
Comma == [kind |-> ","]

\* join putting the separator after every element, the last one too
joinTrailing(elements, separator) ==
    [i \in 1..(2 * Len(elements)) |->
        IF i % 2 = 1 THEN elements[(i + 1) \div 2] ELSE separator]

\* Array.prototype.join: the separator goes between two elements
join(elements, separator) ==
    IF elements = << >> THEN << >>
    ELSE [i \in 1..(2 * Len(elements) - 1) |->
            IF i % 2 = 1 THEN elements[(i + 1) \div 2] ELSE separator]

\* defs are the definitions, body what stands between "(" and ");"
CreateTableLine(tableName, defs) ==
    [kind |-> "CREATE TABLE", table |-> tableName, defs |-> defs,
     body |-> join(defs, Comma)]

AddColumnLine(tableName, def) ==
    [kind |-> "ADD COLUMN", table |-> tableName, column |-> def.name, def |-> def]

AlterColumnsLine(tableName, modifications) ==
    [kind |-> "ALTER COLUMN", table |-> tableName, modifications |-> modifications]

AddVectorColumnLine(tableName, columnName, dimensions) ==
    [kind |-> "ADD VECTOR COLUMN", table |-> tableName, column |-> columnName,
     dimensions |-> dimensions]

AddConstraintLine(tableName, columnName, metadata, deferred) ==
    [kind |-> "ADD CONSTRAINT", table |-> tableName,
     constraint |-> <<"fk", tableName, columnName>>, column |-> columnName,
     refTable |-> metadata.tableName, refColumn |-> metadata.columnName,
     deferred |-> deferred]

\* what a generator call gives back: the text, or nothing when it threw
Returned(sql) == [threw |-> FALSE, sql |-> sql]

Thrown == [threw |-> TRUE, sql |-> << >>]

(***************************************************************************)
(* TableInfo / DatabaseSchema: what getCurrentSchema builds.  A schema is  *)
(* a function from the names of the tables it holds to their TableInfo.    *)
(***************************************************************************)
ColumnInfo(column_name, data_type, is_nullable, is_unique) ==
    [column_name |-> column_name, data_type |-> data_type,
     is_nullable |-> is_nullable, is_unique |-> is_unique]

FkInfo(column_name, foreign_table_name, foreign_column_name) ==
    [column_name |-> column_name, foreign_table_name |-> foreign_table_name,
     foreign_column_name |-> foreign_column_name]

TableInfo(columns, primaryKey, foreignKeys) ==
    [columns |-> columns, primaryKey |-> primaryKey, foreignKeys |-> foreignKeys,
     indexes |-> << >>]

HasTableInfo(schema, tableName) == tableName \in DOMAIN schema

\* tableInfo.columns.find(col => col.column_name === columnName)
HasColumnInfo(tableInfo, columnName) ==
    \E i \in 1..Len(tableInfo.columns) :
        tableInfo.columns[i].column_name = columnName

FindColumnInfo(tableInfo, columnName) ==
    tableInfo.columns[CHOOSE i \in 1..Len(tableInfo.columns) :
        /\ tableInfo.columns[i].column_name = columnName
        /\ \A j \in 1..(i - 1) : tableInfo.columns[j].column_name # columnName]

\* tableInfo.foreignKeys.find / .some on the (column, table, column) triple
HasFkInfo(tableInfo, columnName, metadata) ==
    \E i \in 1..Len(tableInfo.foreignKeys) :
        /\ tableInfo.foreignKeys[i].column_name = columnName
        /\ tableInfo.foreignKeys[i].foreign_table_name = metadata.tableName
        /\ tableInfo.foreignKeys[i].foreign_column_name = metadata.columnName

toLowerCase(type) ==
    CASE type = "TEXT" -> "text"
      [] type = "Text" -> "text"
      [] OTHER -> type

(***************************************************************************)
(* generateTableSQL                                                        *)
(***************************************************************************)
RECURSIVE TableColumnDefs(_)
TableColumnDefs(columns) ==
    IF columns = << >> THEN << >>
    ELSE IF Head(columns).isVector THEN TableColumnDefs(Tail(columns))
    ELSE <<ColumnDef(Head(columns), CreateDefault(Head(columns)))>>
         \o TableColumnDefs(Tail(columns))

RECURSIVE PrimaryKeyColumns(_)
PrimaryKeyColumns(columns) ==
    IF columns = << >> THEN << >>
    ELSE IF ~Head(columns).isVector /\ Head(columns).primary
         THEN <<Head(columns).name>> \o PrimaryKeyColumns(Tail(columns))
    ELSE PrimaryKeyColumns(Tail(columns))

\* some entry names a property that has no column metadata: the loop over the
\* entries throws when it reaches it
MissingColumn(entries, columns) ==
    \E i \in 1..Len(entries) : ~HasKey(columns, entries[i].key)

RECURSIVE TableForeignKeyDefs(_, _, _)
TableForeignKeyDefs(tableName, foreignKeys, columns) ==
    IF foreignKeys = << >> THEN << >>
    ELSE <<ForeignKeyDef(tableName, Lookup(columns, Head(foreignKeys).key).name,
                         Head(foreignKeys))>>
         \o TableForeignKeyDefs(tableName, Tail(foreignKeys), columns)

RECURSIVE TableVectorLines(_, _, _)
TableVectorLines(tableName, vectorColumns, columns) ==
    IF vectorColumns = << >> THEN << >>
    ELSE <<AddVectorColumnLine(tableName,
                               Lookup(columns, Head(vectorColumns).key).name,
                               Head(vectorColumns).dimensions)>>
         \o TableVectorLines(tableName, Tail(vectorColumns), columns)

TableThrowsOnForeignKeys(includeForeignKeys, foreignKeys, columns) ==
    includeForeignKeys /\ MissingColumn(foreignKeys, columns)

generateTableSQL(entityClass, includeForeignKeys) ==
    LET tableName == getTableName(entityClass)
        columns == getAllColumnsFromHierarchy(entityClass)
        foreignKeys == getMetadata("foreign_keys", entityClass)
        vectorColumns == getMetadata("vector_columns", entityClass)
        primaryKeyColumns == PrimaryKeyColumns(columns)
        columnDefinitions ==
            TableColumnDefs(columns)
            \o (IF primaryKeyColumns # << >>
                THEN <<PrimaryKeyDef(primaryKeyColumns)>> ELSE << >>)
            \o (IF includeForeignKeys
                THEN TableForeignKeyDefs(tableName, foreignKeys, columns)
                ELSE << >>)
    IN  IF TableThrowsOnForeignKeys(includeForeignKeys, foreignKeys, columns)
        THEN Thrown
        ELSE IF MissingColumn(vectorColumns, columns) THEN Thrown
        ELSE Returned(<<CreateTableLine(tableName, columnDefinitions)>>
                      \o TableVectorLines(tableName, vectorColumns, columns))

(***************************************************************************)
(* generateAlterTableSQL                                                   *)
(***************************************************************************)
\* ColumnModifications comparing the types letter for letter
ColumnModificationsExact(metadata, existingColumn) ==
    (IF ~metadata.nullable /\ existingColumn.is_nullable = "YES"
     THEN <<[clause |-> "SET NOT NULL", column |-> metadata.name]>>
     ELSE IF metadata.nullable /\ existingColumn.is_nullable = "NO"
     THEN <<[clause |-> "DROP NOT NULL", column |-> metadata.name]>>
     ELSE << >>)
    \o (IF metadata.type # existingColumn.data_type
        THEN <<[clause |-> "TYPE", column |-> metadata.name,
                type |-> metadata.type]>>
        ELSE << >>)

ColumnModifications(metadata, existingColumn) ==
    (IF ~metadata.nullable /\ existingColumn.is_nullable = "YES"
     THEN <<[clause |-> "SET NOT NULL", column |-> metadata.name]>>
     ELSE IF metadata.nullable /\ existingColumn.is_nullable = "NO"
     THEN <<[clause |-> "DROP NOT NULL", column |-> metadata.name]>>
     ELSE << >>)
    \o (IF toLowerCase(metadata.type) # toLowerCase(existingColumn.data_type)
        THEN <<[clause |-> "TYPE", column |-> metadata.name,
                type |-> metadata.type]>>
        ELSE << >>)

RECURSIVE AlterColumnLines(_, _, _)
AlterColumnLines(tableName, columns, tableInfo) ==
    IF columns = << >> THEN << >>
    ELSE LET metadata == Head(columns)
             rest == AlterColumnLines(tableName, Tail(columns), tableInfo)
         IN  IF metadata.isVector THEN rest
             ELSE IF ~HasColumnInfo(tableInfo, metadata.name)
             THEN <<AddColumnLine(tableName,
                                  ColumnDef(metadata, AlterDefault(metadata)))>>
                  \o rest
             ELSE LET modifications ==
                          ColumnModifications(metadata,
                                              FindColumnInfo(tableInfo, metadata.name))
                  IN  (IF modifications # << >>
                       THEN <<AlterColumnsLine(tableName, modifications)>>
                       ELSE << >>) \o rest

\* the missing foreign keys of an existing table, added without a deferral
RECURSIVE AlterForeignKeyLines(_, _, _, _)
AlterForeignKeyLines(tableName, foreignKeys, columns, tableInfo) ==
    IF foreignKeys = << >> THEN << >>
    ELSE LET metadata == Head(foreignKeys)
             columnName == Lookup(columns, metadata.key).name
         IN  (IF ~HasFkInfo(tableInfo, columnName, metadata)
              THEN <<AddConstraintLine(tableName, columnName, metadata, FALSE)>>
              ELSE << >>)
             \o AlterForeignKeyLines(tableName, Tail(foreignKeys), columns, tableInfo)

RECURSIVE AlterVectorLines(_, _, _, _)
AlterVectorLines(tableName, vectorColumns, columns, tableInfo) ==
    IF vectorColumns = << >> THEN << >>
    ELSE LET columnName == Lookup(columns, Head(vectorColumns).key).name
         IN  (IF ~HasColumnInfo(tableInfo, columnName)
              THEN <<AddVectorColumnLine(tableName, columnName,
                                         Head(vectorColumns).dimensions)>>
              ELSE << >>)
             \o AlterVectorLines(tableName, Tail(vectorColumns), columns, tableInfo)

generateAlterTableSQL(entityClass, tableInfo) ==
    LET tableName == getTableName(entityClass)
        columns == getAllColumnsFromHierarchy(entityClass)
        foreignKeys == getMetadata("foreign_keys", entityClass)
        vectorColumns == getMetadata("vector_columns", entityClass)
    IN  IF MissingColumn(foreignKeys, columns) THEN Thrown
        ELSE IF MissingColumn(vectorColumns, columns) THEN Thrown
        ELSE Returned(AlterColumnLines(tableName, columns, tableInfo)
                      \o AlterForeignKeyLines(tableName, foreignKeys, columns, tableInfo)
                      \o AlterVectorLines(tableName, vectorColumns, columns, tableInfo))

(***************************************************************************)
(* generateForeignKeySQL                                                   *)
(***************************************************************************)
RECURSIVE ForeignKeyLines(_, _, _, _)
ForeignKeyLines(tableName, foreignKeys, columns, currentSchema) ==
    IF foreignKeys = << >> THEN << >>
    ELSE LET metadata == Head(foreignKeys)
             columnName == Lookup(columns, metadata.key).name
             constraintExists ==
                 /\ HasTableInfo(currentSchema, tableName)
                 /\ HasFkInfo(currentSchema[tableName], columnName, metadata)
         IN  (IF ~constraintExists
              THEN <<AddConstraintLine(tableName, columnName, metadata, TRUE)>>
              ELSE << >>)
             \o ForeignKeyLines(tableName, Tail(foreignKeys), columns, currentSchema)

generateForeignKeySQL(entityClass, currentSchema) ==
    LET tableName == getTableName(entityClass)
        columns == getAllColumnsFromHierarchy(entityClass)
        foreignKeys == getMetadata("foreign_keys", entityClass)
    IN  IF MissingColumn(foreignKeys, columns) THEN Thrown
        ELSE Returned(ForeignKeyLines(tableName, foreignKeys, columns, currentSchema))

(***************************************************************************)
(* generateMigrationSQL                                                    *)
(***************************************************************************)
\* StructurePass creating the absent table with its foreign keys inline
StructurePassInlineForeignKeys(entityClass, currentSchema) ==
    LET tableName == getTableName(entityClass)
    IN  IF ~HasTableInfo(currentSchema, tableName)
        THEN LET created == generateTableSQL(entityClass, TRUE)
             IN  IF created.threw THEN Thrown
                 ELSE Returned(<<CommentLine("Creating table", tableName)>>
                               \o created.sql \o <<BlankLine>>)
        ELSE LET alterSql == generateAlterTableSQL(entityClass,
                                                   currentSchema[tableName])
             IN  IF alterSql.threw THEN Thrown
                 ELSE IF alterSql.sql # << >>
                 THEN Returned(<<CommentLine("Altering table", tableName)>>
                               \o alterSql.sql \o <<BlankLine>>)
                 ELSE Returned(<< >>)

\* the first pass's output for one entity
StructurePass(entityClass, currentSchema) ==
    LET tableName == getTableName(entityClass)
    IN  IF ~HasTableInfo(currentSchema, tableName)
        THEN LET created == generateTableSQL(entityClass, FALSE)
             IN  IF created.threw THEN Thrown
                 ELSE Returned(<<CommentLine("Creating table", tableName)>>
                               \o created.sql \o <<BlankLine>>)
        ELSE LET alterSql == generateAlterTableSQL(entityClass,
                                                   currentSchema[tableName])
             IN  IF alterSql.threw THEN Thrown
                 ELSE IF alterSql.sql # << >>
                 THEN Returned(<<CommentLine("Altering table", tableName)>>
                               \o alterSql.sql \o <<BlankLine>>)
                 ELSE Returned(<< >>)

\* the second pass's output for one entity
ForeignKeyPass(entityClass, currentSchema) ==
    LET tableName == getTableName(entityClass)
        foreignKeys == getMetadata("foreign_keys", entityClass)
    IN  IF Len(foreignKeys) > 0
        THEN LET added == generateForeignKeySQL(entityClass, currentSchema)
             IN  IF added.threw THEN Thrown
                 ELSE Returned(<<CommentLine("Adding foreign keys to", tableName)>>
                               \o added.sql \o <<BlankLine>>)
        ELSE Returned(<< >>)

\* one pass over the array, in array order; a throw ends the whole call
RECURSIVE PassOver(_, _, _)
PassOver(entityClasses, currentSchema, second) ==
    IF entityClasses = << >> THEN Returned(<< >>)
    ELSE LET first == IF second
                      THEN ForeignKeyPass(Head(entityClasses), currentSchema)
                      ELSE StructurePass(Head(entityClasses), currentSchema)
         IN  IF first.threw THEN Thrown
             ELSE LET rest == PassOver(Tail(entityClasses), currentSchema, second)
                  IN  IF rest.threw THEN Thrown
                      ELSE Returned(first.sql \o rest.sql)

\* FirstPassOrder walking the array from its end
FirstPassOrderReversed(entityClasses) ==
    [i \in 1..Len(entityClasses) |-> entityClasses[Len(entityClasses) + 1 - i]]

\* the order the first pass takes the array in: for (... of entityClasses)
FirstPassOrder(entityClasses) == entityClasses

generateMigrationSQL(entityClasses, currentSchema) ==
    LET firstPass == PassOver(FirstPassOrder(entityClasses), currentSchema, FALSE)
        secondPass == PassOver(entityClasses, currentSchema, TRUE)
    IN  IF firstPass.threw THEN Thrown
        ELSE IF secondPass.threw THEN Thrown
        ELSE Returned(<<ExtensionLine, BlankLine,
                        CommentLine("First pass: Create all tables without foreign keys", "")>>
                      \o firstPass.sql
                      \o <<BlankLine,
                           CommentLine("Second pass: Add foreign key constraints", "")>>
                      \o secondPass.sql)

\* String.prototype.trim on a script: leading and trailing blank lines go
RECURSIVE TrimStart(_)
TrimStart(sql) ==
    IF sql # << >> /\ Head(sql).kind = "blank" THEN TrimStart(Tail(sql)) ELSE sql

RECURSIVE TrimEnd(_)
TrimEnd(sql) ==
    IF sql # << >> /\ sql[Len(sql)].kind = "blank"
    THEN TrimEnd(SubSeq(sql, 1, Len(sql) - 1)) ELSE sql

trim(sql) == TrimEnd(TrimStart(sql))

(***************************************************************************)
(* Inputs: entity arrays and introspected schemas                          *)
(***************************************************************************)
RECURSIVE ArraysOver(_, _)
ArraysOver(classes, n) ==
    IF n = 0 THEN {<< >>}
    ELSE LET shorter == ArraysOver(classes, n - 1)
         IN  shorter \cup
             {Append(a, c) : a \in {b \in shorter : Len(b) = n - 1},
                             c \in classes} 

Distinct(a) == \A i, j \in 1..Len(a) : i # j => a[i] # a[j]

EntityArrays == {a \in ArraysOver(Classes, MaxEntities) : Distinct(a)}

TablesOf(entityClasses) ==
    {getTableName(entityClasses[i]) : i \in 1..Len(entityClasses)}

ClassOfTable(tableName) ==
    CHOOSE c \in AllClasses : HasTable[c] /\ getTableName(c) = tableName

\* the row information_schema.columns holds for a declared column
ColumnInfoOf(metadata) ==
    IF metadata.isVector
    THEN ColumnInfo(metadata.name, "USER-DEFINED", "YES", FALSE)
    ELSE ColumnInfo(metadata.name, metadata.type,
                    IF metadata.nullable THEN "YES" ELSE "NO", metadata.unique)

RECURSIVE ColumnInfosOf(_, _)
ColumnInfosOf(columns, present) ==
    IF columns = << >> THEN << >>
    ELSE (IF Head(columns).name \in present
          THEN <<ColumnInfoOf(Head(columns))>> ELSE << >>)
         \o ColumnInfosOf(Tail(columns), present)

RECURSIVE FkInfosOf(_, _, _)
FkInfosOf(foreignKeys, columns, present) ==
    IF foreignKeys = << >> THEN << >>
    ELSE (IF Head(foreignKeys).key \in present
          THEN <<FkInfo(Lookup(columns, Head(foreignKeys).key).name,
                        Head(foreignKeys).tableName, Head(foreignKeys).columnName)>>
          ELSE << >>)
         \o FkInfosOf(Tail(foreignKeys), columns, present)

\* a table of the database holding the columns `cols` and the foreign keys
\* `fks` (property keys) the class declares, each as declared
TableOf(c, cols, fks) ==
    LET columns == getAllColumnsFromHierarchy(c)
        present == ColumnInfosOf(columns, cols)
    IN  TableInfo(present,
                  SelectSeq(PrimaryKeyColumns(columns), LAMBDA n : n \in cols),
                  FkInfosOf(getMetadata("foreign_keys", c), columns, fks))

ColumnNames(c) ==
    LET columns == getAllColumnsFromHierarchy(c)
    IN  {columns[i].name : i \in 1..Len(columns)}

\* the declared foreign keys a table holding the columns `cols` can carry
FkKeysOn(c, cols) ==
    LET columns == getAllColumnsFromHierarchy(c)
        foreignKeys == getMetadata("foreign_keys", c)
    IN  {foreignKeys[i].key : i \in
            {j \in 1..Len(foreignKeys) :
                /\ HasKey(columns, foreignKeys[j].key)
                /\ Lookup(columns, foreignKeys[j].key).name \in cols}}

TablesFor(c) ==
    UNION {{TableOf(c, cols, fks) : fks \in SUBSET FkKeysOn(c, cols)} :
           cols \in SUBSET ColumnNames(c)}

ExactTable(c) == TableOf(c, ColumnNames(c), FkKeysOn(c, ColumnNames(c)))

RECURSIVE SchemasOver(_)
SchemasOver(tables) ==
    IF tables = {} THEN {<< >>}
    ELSE LET t == CHOOSE x \in tables : TRUE
             rest == SchemasOver(tables \ {t})
         IN  rest \cup
             {(t :> info) @@ s : s \in rest, info \in TablesFor(ClassOfTable(t))}

(***************************************************************************)
(* State                                                                   *)
(***************************************************************************)
VARIABLES
    entityClasses,  \* the entity array of the call or run
    currentSchema,  \* the DatabaseSchema handed to the generator
    call,           \* the generator call made, "none" before it
    result,         \* what the call gave back
    pc,             \* where runMigration stands
    dryRun,         \* runMigration's argument
    dbTables,       \* the committed tables of the database
    dbExtension,    \* whether the vector extension is installed (committed)
    txn,            \* the client's transaction: none, open, aborted, committed, rolledback
    pending,        \* the tables as the client's open transaction left them
    sent,           \* every statement sent, with the connection it went out on
    runApplied,     \* the effects of this run the database holds durably
    observed,       \* every committed state the database was in during the run
    otherDdl,       \* DDL statements another session has committed
    tablesResult,   \* rows of the tables query of getCurrentSchema
    tableIdx,       \* the row its loop is at
    schema,         \* the snapshot getCurrentSchema is building
    stack,          \* the withTransaction / withSavepoint calls in progress
    session,        \* the transaction state of the client's connection
    working,        \* the writes of the open transaction, not committed yet
    committed,      \* the writes the database holds durably
    savepoints,     \* the savepoints of the open transaction, oldest first
    stmts,          \* the statements sent on the client
    released,       \* how often the client was released to the pool
    last,           \* the withTransaction / withSavepoint call that ended last
    nextWrite,      \* the next write the callbacks make
    stores,         \* the storeEmbedding calls made, each with where it stands
    entry,          \* the ids of the rows of table entry
    entryEmbedding, \* the rows of table entry_embedding
    uniqueEntryId   \* whether entry_embedding has a unique constraint on entry_id

genVars == <<entityClasses, currentSchema, call, result>>

runVars == <<pc, dryRun, dbTables, dbExtension, txn, pending, sent, runApplied,
             observed, otherDdl, tablesResult, tableIdx, schema>>

metaVars == <<columnsMetadata>>

txVars == <<stack, session, working, committed, savepoints, stmts, released,
            last, nextWrite>>

storeVars == <<stores, entry, entryEmbedding, uniqueEntryId>>

\* what neither a generator call alone nor a migration run touches
frameVars == <<metaVars, txVars, storeVars>>

vars == <<entityClasses, currentSchema, call, result, pc, dryRun, dbTables,
          dbExtension, txn, pending, sent, runApplied, observed, otherDdl,
          tablesResult, tableIdx, schema, columnsMetadata,
          stack, session, working, committed, savepoints, stmts, released,
          last, nextWrite, stores, entry, entryEmbedding, uniqueEntryId>>

\* the decorators have run and nothing else has
MetaIdle ==
    /\ columnsMetadata = OwnColumns

NoLast == [fn |-> "none"]

\* no withTransaction / withSavepoint call was made
TxIdle ==
    /\ stack = << >>
    /\ session = "idle"
    /\ working = {}
    /\ committed = {}
    /\ savepoints = << >>
    /\ stmts = << >>
    /\ released = 0
    /\ last = NoLast
    /\ nextWrite = 1

\* no storeEmbedding call was made
StoreIdle ==
    /\ stores = << >>
    /\ entry = {}
    /\ entryEmbedding = {}
    /\ uniqueEntryId = FALSE

NoPending == [has |-> FALSE, tables |-> << >>]

\* no run in progress
RunIdle ==
    /\ pc = "idle"
    /\ dryRun = FALSE
    /\ dbTables = << >>
    /\ dbExtension = FALSE
    /\ txn = "none"
    /\ pending = NoPending
    /\ sent = << >>
    /\ runApplied = {}
    /\ observed = {}
    /\ otherDdl = 0
    /\ tablesResult = << >>
    /\ tableIdx = 0
    /\ schema = << >>

NoCall == [fn |-> "none"]

GenInit ==
    /\ MetaIdle
    /\ TxIdle
    /\ StoreIdle
    /\ entityClasses \in EntityArrays
    /\ currentSchema \in SchemasOver(TablesOf(entityClasses))
    /\ call = NoCall
    /\ result = Returned(<< >>)
    /\ RunIdle

CallGenerateMigrationSQL ==
    /\ call = NoCall
    /\ call' = [fn |-> "generateMigrationSQL"]
    /\ result' = generateMigrationSQL(entityClasses, currentSchema)
    /\ UNCHANGED <<entityClasses, currentSchema>>
    /\ UNCHANGED runVars
    /\ UNCHANGED frameVars

CallGenerateTableSQL ==
    /\ call = NoCall
    /\ \E i \in 1..Len(entityClasses), includeForeignKeys \in BOOLEAN :
        /\ call' = [fn |-> "generateTableSQL", entityClass |-> entityClasses[i],
                    includeForeignKeys |-> includeForeignKeys]
        /\ result' = generateTableSQL(entityClasses[i], includeForeignKeys)
    /\ UNCHANGED <<entityClasses, currentSchema>>
    /\ UNCHANGED runVars
    /\ UNCHANGED frameVars

CallGenerateAlterTableSQL ==
    /\ call = NoCall
    /\ \E i \in 1..Len(entityClasses) :
        /\ HasTableInfo(currentSchema, getTableName(entityClasses[i]))
        /\ call' = [fn |-> "generateAlterTableSQL", entityClass |-> entityClasses[i]]
        /\ result' = generateAlterTableSQL(
                         entityClasses[i],
                         currentSchema[getTableName(entityClasses[i])])
    /\ UNCHANGED <<entityClasses, currentSchema>>
    /\ UNCHANGED runVars
    /\ UNCHANGED frameVars

GenNext ==
    \/ CallGenerateMigrationSQL
    \/ CallGenerateTableSQL
    \/ CallGenerateAlterTableSQL

SpecGen == GenInit /\ [][GenNext]_vars

(***************************************************************************)
(* A process that has its classes decorated and then calls the generators  *)
(* and the row operations on them, any number of times in any order.  Of   *)
(* a row operation this part holds the column resolution its body starts   *)
(* with.                                                                   *)
(***************************************************************************)
\* longest entity array of such a process
MaxMetaEntities == 2

MetaClasses == {"User", "Note", "Draft", "Like", "Audit"}

MetaArrays == {a \in ArraysOver(MetaClasses, MaxMetaEntities) : Distinct(a)}

\* the schemas holding some of the entities' tables, each exactly as declared
MetaSchemas(entities) ==
    {[t \in present |-> ExactTable(ClassOfTable(t))] :
        present \in SUBSET TablesOf(entities)}

\* what a row operation has in hand after resolving the columns
Resolved(columns) == [threw |-> FALSE, sql |-> << >>, columns |-> columns]

MetaInit ==
    /\ MetaIdle
    /\ TxIdle
    /\ StoreIdle
    /\ RunIdle
    /\ entityClasses \in MetaArrays
    /\ currentSchema \in MetaSchemas(entityClasses)
    /\ call = NoCall
    /\ result = Returned(<< >>)

MetaGenerateMigrationSQL ==
    /\ call' = [fn |-> "generateMigrationSQL"]
    /\ result' = generateMigrationSQL(entityClasses, currentSchema)
    /\ UNCHANGED <<entityClasses, currentSchema, columnsMetadata>>
    /\ UNCHANGED <<runVars, txVars, storeVars>>

MetaGenerateTableSQL ==
    /\ \E i \in 1..Len(entityClasses), includeForeignKeys \in BOOLEAN :
        /\ call' = [fn |-> "generateTableSQL", entityClass |-> entityClasses[i],
                    includeForeignKeys |-> includeForeignKeys]
        /\ result' = generateTableSQL(entityClasses[i], includeForeignKeys)
    /\ UNCHANGED <<entityClasses, currentSchema, columnsMetadata>>
    /\ UNCHANGED <<runVars, txVars, storeVars>>

MetaGenerateAlterTableSQL ==
    /\ \E i \in 1..Len(entityClasses) :
        /\ HasTableInfo(currentSchema, getTableName(entityClasses[i]))
        /\ call' = [fn |-> "generateAlterTableSQL", entityClass |-> entityClasses[i]]
        /\ result' = generateAlterTableSQL(
                         entityClasses[i],
                         currentSchema[getTableName(entityClasses[i])])
    /\ UNCHANGED <<entityClasses, currentSchema, metaVars>>
    /\ UNCHANGED <<runVars, txVars, storeVars>>

\* const columns = getAllColumnsFromHierarchy(entityClass), as every row
\* operation starts
ResolveFor(fn) ==
    /\ \E i \in 1..Len(entityClasses) :
        /\ call' = [fn |-> fn, entityClass |-> entityClasses[i]]
        /\ result' = Resolved(getAllColumnsFromHierarchyOps(entityClasses[i]))
        /\ columnsMetadata' = AfterResolve(entityClasses[i])
    /\ UNCHANGED <<entityClasses, currentSchema>>
    /\ UNCHANGED <<runVars, txVars, storeVars>>

findBy == ResolveFor("findBy")

listAll == ResolveFor("listAll")

save == ResolveFor("save")

\* most entries of a criteria object
MaxCriteria == 2

Undefined == "undefined"

\* a property the classes have without a @Column decorator
UndecoratedKey == "nickname"

CriteriaValues == {Undefined, "x"}

\* the criteria objects of the calls: entries in insertion order, keys distinct
CriteriaOver(keys) ==
    UNION {{e \in [1..n -> [key : keys, value : CriteriaValues]] :
               \A i, j \in 1..n : i # j => e[i].key # e[j].key} :
           n \in 0..MaxCriteria}

\* what the DELETE reports as result.rowCount
RowCounts == {0, 1}

AlwaysConditions(conditions) == FALSE

\* if (conditions.length === 0)
NoConditions(conditions) == Len(conditions) = 0

\* for (const [key, value] of Object.entries(criteria)) { ... }
RECURSIVE CriteriaLoop(_, _, _)
CriteriaLoop(columns, entries, acc) ==
    IF entries = << >> THEN acc
    ELSE LET key == Head(entries).key
             value == Head(entries).value
         IN  IF value # Undefined
             THEN IF ~HasKey(columns, key)
                  THEN [acc EXCEPT !.threw = TRUE]
                  ELSE CriteriaLoop(columns, Tail(entries),
                         [threw |-> FALSE,
                          conditions |->
                              Append(acc.conditions,
                                     [column |-> Lookup(columns, key).name,
                                      param |-> acc.paramIndex]),
                          values |-> Append(acc.values, value),
                          paramIndex |-> acc.paramIndex + 1])
             ELSE CriteriaLoop(columns, Tail(entries), acc)

\* DELETE FROM ${tableName} WHERE ${conditions.join(' AND ')}
DeleteQuery(tableName, conditions, values) ==
    [kind |-> "DELETE", table |-> tableName, conditions |-> conditions,
     values |-> values]

\* what a deleteBy call comes to: the queries it sent and what it gave back
DeleteOutcome(columns, threw, queries, returned) ==
    [threw |-> threw, sql |-> << >>, columns |-> columns, queries |-> queries,
     returned |-> returned]

\* the calls of the deleting process: a class and a criteria object
DeleteInit ==
    /\ MetaIdle
    /\ TxIdle
    /\ StoreIdle
    /\ RunIdle
    /\ \E entityClass \in MetaClasses :
        /\ entityClasses = <<entityClass>>
        /\ \E criteria \in CriteriaOver(Keys(getAllColumnsFromHierarchyOps(entityClass))
                                          \cup {UndecoratedKey}) :
              call = [fn |-> "none", entityClass |-> entityClass,
                      criteria |-> criteria]
    /\ currentSchema = << >>
    /\ result = Returned(<< >>)

\* deleteBy(entityClass, criteria, client): the process makes the call, and
\* may make it again
deleteBy ==
    /\ call.fn \in {"none", "deleteBy"}
    /\ LET entityClass == call.entityClass
           criteria == call.criteria
           tableName == getTableName(entityClass)
           columns == getAllColumnsFromHierarchyOps(entityClass)
           loop == CriteriaLoop(columns, criteria,
                                [threw |-> FALSE, conditions |-> << >>,
                                 values |-> << >>, paramIndex |-> 1])
           query == DeleteQuery(tableName, loop.conditions, loop.values)
       IN  /\ call' = [call EXCEPT !.fn = "deleteBy"]
           /\ columnsMetadata' = AfterResolve(entityClass)
           /\ IF loop.threw
              THEN result' = DeleteOutcome(columns, TRUE, << >>, 0)
              ELSE IF NoConditions(loop.conditions)
              THEN result' = DeleteOutcome(columns, FALSE, << >>, 0)
              ELSE \/ \E rowCount \in RowCounts :
                        result' = DeleteOutcome(columns, FALSE, <<query>>,
                                                rowCount)
                   \/ result' = DeleteOutcome(columns, TRUE, <<query>>, 0)
    /\ UNCHANGED <<entityClasses, currentSchema>>
    /\ UNCHANGED <<runVars, txVars, storeVars>>

DeleteNext == deleteBy

SpecDelete == DeleteInit /\ [][DeleteNext]_vars

mapRowToEntity == ResolveFor("mapRowToEntity")

RowOperations == {"findBy", "listAll", "save", "deleteBy", "mapRowToEntity"}

MetaNext ==
    \/ MetaGenerateMigrationSQL
    \/ MetaGenerateTableSQL
    \/ MetaGenerateAlterTableSQL
    \/ findBy
    \/ listAll
    \/ save
    \/ ResolveFor("deleteBy")
    \/ mapRowToEntity

SpecMeta == MetaInit /\ [][MetaNext]_vars

(***************************************************************************)
(* The database: executing a script against its tables.  A statement that  *)
(* PostgreSQL rejects (the table, column or constraint is already there,   *)
(* or a named table or column is not) fails the script.                    *)
(***************************************************************************)
Failed == [ok |-> FALSE, tables |-> << >>]

Done(tables) == [ok |-> TRUE, tables |-> tables]

HasFkOn(tableInfo, columnName) ==
    \E i \in 1..Len(tableInfo.foreignKeys) :
        tableInfo.foreignKeys[i].column_name = columnName

RECURSIVE DefColumns(_)
DefColumns(defs) ==
    IF defs = << >> THEN << >>
    ELSE (IF Head(defs).kind = "column"
          THEN <<ColumnInfo(Head(defs).name, Head(defs).type,
                            IF Head(defs).notNull THEN "NO" ELSE "YES",
                            Head(defs).unique)>>
          ELSE << >>) \o DefColumns(Tail(defs))

RECURSIVE DefPrimaryKey(_)
DefPrimaryKey(defs) ==
    IF defs = << >> THEN << >>
    ELSE (IF Head(defs).kind = "PRIMARY KEY" THEN Head(defs).cols ELSE << >>)
         \o DefPrimaryKey(Tail(defs))

RECURSIVE DefForeignKeys(_)
DefForeignKeys(defs) ==
    IF defs = << >> THEN << >>
    ELSE (IF Head(defs).kind = "FOREIGN KEY"
          THEN <<FkInfo(Head(defs).column, Head(defs).refTable, Head(defs).refColumn)>>
          ELSE << >>) \o DefForeignKeys(Tail(defs))

WithTable(tables, tableName, tableInfo) ==
    (tableName :> tableInfo) @@ tables

WithoutTable(tables, tableName) ==
    [t \in DOMAIN tables \ {tableName} |-> tables[t]]

\* ALTER TABLE ... ALTER COLUMN clauses applied to one column row
AlteredColumn(info, modifications) ==
    LET Clauses(clause) ==
            {m \in 1..Len(modifications) :
                /\ modifications[m].column = info.column_name
                /\ modifications[m].clause = clause}
    IN  [info EXCEPT
           !.is_nullable = IF Clauses("SET NOT NULL") # {} THEN "NO"
                           ELSE IF Clauses("DROP NOT NULL") # {} THEN "YES"
                           ELSE @,
           !.data_type = IF Clauses("TYPE") = {} THEN @
                         ELSE modifications[CHOOSE m \in Clauses("TYPE") : TRUE].type]

ExecuteLine(tables, line) ==
    CASE line.kind \in {"CREATE EXTENSION", "blank", "comment"} -> Done(tables)
      [] line.kind = "CREATE TABLE" ->
           LET created == TableInfo(DefColumns(line.defs), DefPrimaryKey(line.defs),
                                    DefForeignKeys(line.defs))
           IN  IF \/ line.table \in DOMAIN tables
                  \/ \E i \in 1..Len(created.foreignKeys) :
                        created.foreignKeys[i].foreign_table_name
                            \notin (DOMAIN tables \cup {line.table})
               THEN Failed
               ELSE Done(WithTable(tables, line.table, created))
      [] line.kind = "ADD COLUMN" ->
           IF \/ line.table \notin DOMAIN tables
              \/ HasColumnInfo(tables[line.table], line.column)
           THEN Failed
           ELSE Done(WithTable(tables, line.table,
                     [tables[line.table] EXCEPT
                        !.columns = Append(@, ColumnInfo(line.def.name, line.def.type,
                                      IF line.def.notNull THEN "NO" ELSE "YES",
                                      line.def.unique))]))
      [] line.kind = "ADD VECTOR COLUMN" ->
           IF \/ line.table \notin DOMAIN tables
              \/ HasColumnInfo(tables[line.table], line.column)
           THEN Failed
           ELSE Done(WithTable(tables, line.table,
                     [tables[line.table] EXCEPT
                        !.columns = Append(@, ColumnInfo(line.column, "USER-DEFINED",
                                                         "YES", FALSE))]))
      [] line.kind = "ALTER COLUMN" ->
           IF \/ line.table \notin DOMAIN tables
              \/ \E m \in 1..Len(line.modifications) :
                    ~HasColumnInfo(tables[line.table], line.modifications[m].column)
           THEN Failed
           ELSE Done(WithTable(tables, line.table,
                     [tables[line.table] EXCEPT
                        !.columns = [i \in 1..Len(@) |->
                                       AlteredColumn(@[i], line.modifications)]]))
      [] line.kind = "ADD CONSTRAINT" ->
           IF \/ line.table \notin DOMAIN tables
              \/ line.refTable \notin DOMAIN tables
              \/ ~HasColumnInfo(tables[line.table], line.column)
              \/ ~HasColumnInfo(tables[line.refTable], line.refColumn)
              \/ HasFkOn(tables[line.table], line.column)
           THEN Failed
           ELSE Done(WithTable(tables, line.table,
                     [tables[line.table] EXCEPT
                        !.foreignKeys = Append(@, FkInfo(line.column, line.refTable,
                                                         line.refColumn))]))

RECURSIVE Execute(_, _)
Execute(tables, sql) ==
    IF sql = << >> THEN Done(tables)
    ELSE LET first == ExecuteLine(tables, Head(sql))
         IN  IF first.ok THEN Execute(first.tables, Tail(sql)) ELSE Failed

(***************************************************************************)
(* runMigration and getCurrentSchema, one action per awaited operation.    *)
(* Every awaited operation may reject (the connection is lost, the server  *)
(* refuses the statement).  pool.query runs its statement on a connection  *)
(* of the pool's choosing, in a transaction of its own; client.query runs  *)
(* it on the acquired client.                                              *)
(***************************************************************************)
\* the classes loadEntityClasses may find in db/entities
RunClasses == {"User", "Post"}

RunArrays == {a \in ArraysOver(RunClasses, MaxEntities) : Distinct(a)}

RunTables == {getTableName(c) : c \in RunClasses}

TableOrder == <<"users", "posts", "parent", "child", "categories",
                "embeddings", "orphans", "broken_vecs">>

\* every foreign key of the database names a table of the database
DbConsistent(tables) ==
    \A t \in DOMAIN tables :
        \A i \in 1..Len(tables[t].foreignKeys) :
            tables[t].foreignKeys[i].foreign_table_name \in DOMAIN tables

Log(conn, stmt) == [conn |-> conn, stmt |-> stmt]

EmptyTableInfo == TableInfo(<< >>, << >>, << >>)

RunInit ==
    /\ MetaIdle
    /\ TxIdle
    /\ StoreIdle
    /\ entityClasses = << >>
    /\ currentSchema = << >>
    /\ call = NoCall
    /\ result = Returned(<< >>)
    /\ pc = "start"
    /\ dryRun \in BOOLEAN
    /\ dbTables \in {s \in SchemasOver(RunTables) : DbConsistent(s)}
    /\ dbExtension \in BOOLEAN
    /\ txn = "none"
    /\ pending = NoPending
    /\ sent = << >>
    /\ runApplied = {}
    /\ observed = {dbTables}
    /\ otherDdl = 0
    /\ tablesResult = << >>
    /\ tableIdx = 0
    /\ schema = << >>

\* DATABASE_URL is checked (process.exit(1) without it), then the pool is made
RunStart ==
    /\ pc = "start"
    /\ \/ pc' = "connect"
       \/ pc' = "exited"
    /\ UNCHANGED <<genVars, dryRun, dbTables, dbExtension, txn, pending, sent,
                   runApplied, observed, otherDdl, tablesResult, tableIdx>>
    /\ UNCHANGED <<schema, frameVars>>

\* const client = await pool.connect(); the outer catch exits the process
RunConnect ==
    /\ pc = "connect"
    /\ \/ pc' = "begin"
       \/ pc' = "exited"
    /\ UNCHANGED <<genVars, dryRun, dbTables, dbExtension, txn, pending, sent,
                   runApplied, observed, otherDdl, tablesResult, tableIdx>>
    /\ UNCHANGED <<schema, frameVars>>

\* RunBegin without the dryRun test
RunBeginUnguarded ==
    /\ pc = "begin"
    /\ sent' = Append(sent, Log("client", "BEGIN"))
    /\ \/ txn' = "open" /\ pc' = "ensureVector"
       \/ txn' = txn /\ pc' = "catch"
    /\ UNCHANGED <<genVars, dryRun, dbTables, dbExtension, pending,
                   runApplied, observed, otherDdl, tablesResult, tableIdx>>
    /\ UNCHANGED <<schema, frameVars>>

\* if (!dryRun) await client.query('BEGIN')
RunBegin ==
    /\ pc = "begin"
    /\ \/ /\ dryRun
          /\ pc' = "ensureVector"
          /\ UNCHANGED <<txn, sent>>
       \/ /\ ~dryRun
          /\ sent' = Append(sent, Log("client", "BEGIN"))
          /\ \/ txn' = "open" /\ pc' = "ensureVector"
             \/ txn' = txn /\ pc' = "catch"
    /\ UNCHANGED <<genVars, dryRun, dbTables, dbExtension, pending,
                   runApplied, observed, otherDdl, tablesResult, tableIdx>>
    /\ UNCHANGED <<schema, frameVars>>

\* if (!dryRun) await ensureVectorExtension(pool): pool.query, so the
\* statement commits on its own
RunEnsureVector ==
    /\ pc = "ensureVector"
    /\ \/ /\ dryRun
          /\ pc' = "load"
          /\ UNCHANGED <<dbExtension, sent, runApplied>>
       \/ /\ ~dryRun
          /\ sent' = Append(sent, Log("pool", "CREATE EXTENSION"))
          /\ \/ /\ dbExtension' = TRUE
                /\ runApplied' = IF dbExtension THEN runApplied
                                 ELSE runApplied \cup {"extension"}
                /\ pc' = "load"
             \/ /\ UNCHANGED <<dbExtension, runApplied>>
                /\ pc' = "catch"
    /\ UNCHANGED <<genVars, dryRun, dbTables, txn, pending, observed, otherDdl,
                   tablesResult, tableIdx>>
    /\ UNCHANGED <<schema, frameVars>>

\* const entityClasses = await loadEntityClasses(): it never rejects
RunLoad ==
    /\ pc = "load"
    /\ entityClasses' \in RunArrays
    /\ pc' = "tables"
    /\ UNCHANGED <<currentSchema, call, result, dryRun, dbTables, dbExtension, txn,
                   pending, sent, runApplied, observed, otherDdl, tablesResult,
                   tableIdx>>
    /\ UNCHANGED <<schema, frameVars>>

\* getCurrentSchema: the tables query
QueryTables ==
    /\ pc = "tables"
    /\ sent' = Append(sent, Log("pool", "catalog"))
    /\ \/ /\ tablesResult' = SelectSeq(TableOrder, LAMBDA t : t \in DOMAIN dbTables)
          /\ schema' = << >>
          /\ tableIdx' = 1
          /\ \/ /\ DOMAIN dbTables # {}
                /\ pc' = "columns"
                /\ UNCHANGED currentSchema
             \/ /\ DOMAIN dbTables = {}
                /\ pc' = "generate"
                /\ currentSchema' = schema'
       \/ /\ UNCHANGED <<tablesResult, schema, currentSchema, tableIdx>>
          /\ pc' = "catch"
    /\ UNCHANGED <<entityClasses, call, result, dryRun, dbTables, dbExtension, txn,
                   pending, runApplied, observed, otherDdl>>
    /\ UNCHANGED frameVars

CurrentTable == tablesResult[tableIdx]

\* the rows a per-table catalog query finds now: none when the table is gone
LiveTable == IF CurrentTable \in DOMAIN dbTables THEN dbTables[CurrentTable]
             ELSE EmptyTableInfo

\* information_schema.columns carries no uniqueness
ColumnRows(tableInfo) ==
    [i \in 1..Len(tableInfo.columns) |->
        [tableInfo.columns[i] EXCEPT !.is_unique = FALSE]]

\* the columns read earlier, those the unique query names marked
MarkUnique(columns, tableInfo) ==
    [i \in 1..Len(columns) |->
        IF \E u \in 1..Len(tableInfo.columns) :
              /\ tableInfo.columns[u].is_unique
              /\ tableInfo.columns[u].column_name = columns[i].column_name
        THEN [columns[i] EXCEPT !.is_unique = TRUE]
        ELSE columns[i]]

\* QueryColumns handing the caller what was built when the query fails
QueryColumnsLeaking ==
    /\ pc = "columns"
    /\ sent' = Append(sent, Log("pool", "catalog"))
    /\ \/ /\ schema' =
                WithTable(schema, CurrentTable,
                          [EmptyTableInfo EXCEPT !.columns = ColumnRows(LiveTable)])
          /\ pc' = "primaryKey"
          /\ UNCHANGED currentSchema
       \/ /\ UNCHANGED schema
          /\ currentSchema' = schema
          /\ pc' = "catch"
    /\ UNCHANGED <<entityClasses, call, result, dryRun, dbTables, dbExtension, txn,
                   pending, runApplied, observed, otherDdl, tablesResult, tableIdx>>
    /\ UNCHANGED frameVars

\* getCurrentSchema: the columns query of one table
QueryColumns ==
    /\ pc = "columns"
    /\ sent' = Append(sent, Log("pool", "catalog"))
    /\ \/ /\ schema' =
                WithTable(schema, CurrentTable,
                          [EmptyTableInfo EXCEPT !.columns = ColumnRows(LiveTable)])
          /\ pc' = "primaryKey"
       \/ /\ UNCHANGED schema
          /\ pc' = "catch"
    /\ UNCHANGED <<entityClasses, currentSchema, call, result, dryRun, dbTables, dbExtension, txn,
                   pending, runApplied, observed, otherDdl, tablesResult, tableIdx>>
    /\ UNCHANGED frameVars

\* getCurrentSchema: the primary key query; $1::regclass rejects a table that
\* is not there
QueryPrimaryKey ==
    /\ pc = "primaryKey"
    /\ sent' = Append(sent, Log("pool", "catalog"))
    /\ \/ /\ CurrentTable \in DOMAIN dbTables
          /\ schema' = [schema EXCEPT
                                 ![CurrentTable].primaryKey = LiveTable.primaryKey]
          /\ pc' = "foreignKeys"
       \/ /\ UNCHANGED schema
          /\ pc' = "catch"
    /\ UNCHANGED <<entityClasses, currentSchema, call, result, dryRun, dbTables, dbExtension, txn,
                   pending, runApplied, observed, otherDdl, tablesResult, tableIdx>>
    /\ UNCHANGED frameVars

\* getCurrentSchema: the foreign keys query
QueryForeignKeys ==
    /\ pc = "foreignKeys"
    /\ sent' = Append(sent, Log("pool", "catalog"))
    /\ \/ /\ schema' = [schema EXCEPT
                                 ![CurrentTable].foreignKeys = LiveTable.foreignKeys]
          /\ pc' = "unique"
       \/ /\ UNCHANGED schema
          /\ pc' = "catch"
    /\ UNCHANGED <<entityClasses, currentSchema, call, result, dryRun, dbTables, dbExtension, txn,
                   pending, runApplied, observed, otherDdl, tablesResult, tableIdx>>
    /\ UNCHANGED frameVars

\* getCurrentSchema: the unique constraints query, marking the columns read
QueryUnique ==
    /\ pc = "unique"
    /\ sent' = Append(sent, Log("pool", "catalog"))
    /\ \/ /\ schema' =
                [schema EXCEPT
                   ![CurrentTable].columns = MarkUnique(@, LiveTable)]
          /\ pc' = "indexes"
       \/ /\ UNCHANGED schema
          /\ pc' = "catch"
    /\ UNCHANGED <<entityClasses, currentSchema, call, result, dryRun, dbTables, dbExtension, txn,
                   pending, runApplied, observed, otherDdl, tablesResult, tableIdx>>
    /\ UNCHANGED frameVars

\* getCurrentSchema: the indexes query; the loop goes on to the next table
QueryIndexes ==
    /\ pc = "indexes"
    /\ sent' = Append(sent, Log("pool", "catalog"))
    /\ \/ /\ schema' = [schema EXCEPT ![CurrentTable].indexes = LiveTable.indexes]
          /\ \/ /\ tableIdx < Len(tablesResult)
                /\ tableIdx' = tableIdx + 1
                /\ pc' = "columns"
                /\ UNCHANGED currentSchema
             \/ /\ tableIdx = Len(tablesResult)
                /\ tableIdx' = tableIdx
                /\ pc' = "generate"
                /\ currentSchema' = schema'
       \/ /\ UNCHANGED <<schema, currentSchema, tableIdx>>
          /\ pc' = "catch"
    /\ UNCHANGED <<entityClasses, call, result, dryRun, dbTables, dbExtension, txn,
                   pending, runApplied, observed, otherDdl, tablesResult>>
    /\ UNCHANGED frameVars

\* whether runMigration takes the script for "no changes needed"
NoChangesNeeded(sql) == trim(sql) = <<ExtensionLine>>

\* generateMigrationSQL, then the test for "no changes needed"
RunGenerate ==
    /\ pc = "generate"
    /\ call' = [fn |-> "generateMigrationSQL"]
    /\ result' = generateMigrationSQL(entityClasses, currentSchema)
    /\ pc' = IF result'.threw THEN "catch"
             ELSE IF NoChangesNeeded(result'.sql) THEN "commit"
             ELSE IF dryRun THEN "commit"
             ELSE "execute"
    /\ UNCHANGED <<entityClasses, currentSchema, dryRun, dbTables, dbExtension, txn,
                   pending, sent, runApplied, observed, otherDdl, tablesResult,
                   tableIdx>>
    /\ UNCHANGED <<schema, frameVars>>

\* await client.query(sql): the script runs in the client's transaction, or as
\* its own when BEGIN never opened one; a failing statement aborts it
RunExecute ==
    /\ pc = "execute"
    /\ sent' = Append(sent, Log("client", "script"))
    /\ \/ /\ Execute(dbTables, result.sql).ok
          /\ pending' = [has |-> TRUE, tables |-> Execute(dbTables, result.sql).tables]
          /\ txn' = txn
          /\ pc' = "commitScript"
       \/ /\ pending' = NoPending
          /\ txn' = "aborted"
          /\ pc' = "catch"
    /\ UNCHANGED <<genVars, dryRun, dbTables, dbExtension, runApplied, observed,
                   otherDdl, tablesResult, tableIdx>>
    /\ UNCHANGED <<schema, frameVars>>

\* the effect of a COMMIT the server accepts
Committed ==
    /\ txn' = "committed"
    /\ pending' = NoPending
    /\ IF txn = "open" /\ pending.has
       THEN /\ dbTables' = pending.tables
            /\ observed' = observed \cup {pending.tables}
            /\ runApplied' = IF pending.tables = dbTables THEN runApplied
                             ELSE runApplied \cup {"script"}
       ELSE UNCHANGED <<dbTables, observed, runApplied>>

\* await client.query('COMMIT') right after the script
RunCommitScript ==
    /\ pc = "commitScript"
    /\ sent' = Append(sent, Log("client", "COMMIT"))
    /\ \/ Committed /\ pc' = "commit"
       \/ /\ txn' = "aborted"
          /\ pending' = NoPending
          /\ UNCHANGED <<dbTables, observed, runApplied>>
          /\ pc' = "catch"
    /\ UNCHANGED <<genVars, dryRun, dbExtension, otherDdl, tablesResult, tableIdx>>
    /\ UNCHANGED <<schema, frameVars>>

\* if (!dryRun) await client.query('COMMIT') at the end of the try block
RunCommit ==
    /\ pc = "commit"
    /\ \/ /\ dryRun
          /\ pc' = "release"
          /\ UNCHANGED <<txn, pending, sent, dbTables, observed, runApplied>>
       \/ /\ ~dryRun
          /\ sent' = Append(sent, Log("client", "COMMIT"))
          /\ \/ Committed /\ pc' = "release"
             \/ /\ txn' = IF txn = "open" THEN "aborted" ELSE txn
                /\ pending' = NoPending
                /\ UNCHANGED <<dbTables, observed, runApplied>>
                /\ pc' = "catch"
    /\ UNCHANGED <<genVars, dryRun, dbExtension, otherDdl, tablesResult, tableIdx>>
    /\ UNCHANGED <<schema, frameVars>>

\* catch: if (!dryRun) await client.query('ROLLBACK'); process.exit(1)
RunCatch ==
    /\ pc = "catch"
    /\ \/ /\ dryRun
          /\ UNCHANGED <<txn, pending, sent>>
       \/ /\ ~dryRun
          /\ sent' = Append(sent, Log("client", "ROLLBACK"))
          /\ pending' = NoPending
          /\ \/ txn' = IF txn \in {"open", "aborted"} THEN "rolledback" ELSE txn
             \/ txn' = IF txn = "open" THEN "aborted" ELSE txn
    /\ pc' = "exited"
    /\ UNCHANGED <<genVars, dryRun, dbTables, dbExtension, runApplied, observed,
                   otherDdl, tablesResult, tableIdx>>
    /\ UNCHANGED <<schema, frameVars>>

\* finally: client.release(), then pool.end()
RunRelease ==
    /\ pc = "release"
    /\ pc' = "done"
    /\ UNCHANGED <<genVars, dryRun, dbTables, dbExtension, txn, pending, sent,
                   runApplied, observed, otherDdl, tablesResult, tableIdx>>
    /\ UNCHANGED <<schema, frameVars>>

RunActive == pc \notin {"start", "done", "exited", "idle"}

\* the table another session creates for a class: as declared, with the foreign
\* keys whose referenced table is there
OtherTable(c, tables) ==
    LET columns == getAllColumnsFromHierarchy(c)
        foreignKeys == getMetadata("foreign_keys", c)
    IN  TableOf(c, ColumnNames(c),
                {foreignKeys[i].key : i \in
                    {j \in 1..Len(foreignKeys) :
                        /\ HasKey(columns, foreignKeys[j].key)
                        /\ foreignKeys[j].tableName
                             \in (DOMAIN tables \cup {getTableName(c)})}})

\* another session commits CREATE TABLE while the run is under way; the
\* client's uncommitted DDL holds its locks, so not after the script ran
OtherCreateTable ==
    /\ RunActive
    /\ otherDdl < MaxOtherDdl
    /\ ~pending.has
    /\ \E c \in RunClasses :
        /\ getTableName(c) \notin DOMAIN dbTables
        /\ dbTables' = WithTable(dbTables, getTableName(c), OtherTable(c, dbTables))
    /\ observed' = observed \cup {dbTables'}
    /\ otherDdl' = otherDdl + 1
    /\ UNCHANGED <<genVars, pc, dryRun, dbExtension, txn, pending, sent, runApplied,
                   tablesResult, tableIdx>>
    /\ UNCHANGED <<schema, frameVars>>

\* another session commits DROP TABLE of a table no foreign key names
OtherDropTable ==
    /\ RunActive
    /\ otherDdl < MaxOtherDdl
    /\ ~pending.has
    /\ \E t \in DOMAIN dbTables :
        /\ DbConsistent(WithoutTable(dbTables, t))
        /\ dbTables' = WithoutTable(dbTables, t)
    /\ observed' = observed \cup {dbTables'}
    /\ otherDdl' = otherDdl + 1
    /\ UNCHANGED <<genVars, pc, dryRun, dbExtension, txn, pending, sent, runApplied,
                   tablesResult, tableIdx>>
    /\ UNCHANGED <<schema, frameVars>>

RunNext ==
    \/ RunStart
    \/ RunConnect
    \/ RunBegin
    \/ RunEnsureVector
    \/ RunLoad
    \/ QueryTables
    \/ QueryColumns
    \/ QueryPrimaryKey
    \/ QueryForeignKeys
    \/ QueryUnique
    \/ QueryIndexes
    \/ RunGenerate
    \/ RunExecute
    \/ RunCommitScript
    \/ RunCommit
    \/ RunCatch
    \/ RunRelease
    \/ OtherCreateTable
    \/ OtherDropTable

SpecRun == RunInit /\ [][RunNext]_vars

(***************************************************************************)
(* Reading a script                                                        *)
(***************************************************************************)
StatementKinds ==
    {"CREATE TABLE", "ADD COLUMN", "ALTER COLUMN", "ADD CONSTRAINT",
     "ADD VECTOR COLUMN"}

IsStatement(line) == line.kind \in StatementKinds

IsAddConstraint(line) == line.kind = "ADD CONSTRAINT"

IsCreateTable(line) == line.kind = "CREATE TABLE"

\* where the second pass starts: the position of its heading comment
SecondPassAt(sql) ==
    CHOOSE k \in 1..Len(sql) :
        /\ sql[k].kind = "comment"
        /\ sql[k].text = "Second pass: Add foreign key constraints"

InStructurePass(sql, k) == k < SecondPassAt(sql)

InForeignKeyPass(sql, k) == k > SecondPassAt(sql)

Count(sql, Test(_)) == Cardinality({k \in 1..Len(sql) : Test(sql[k])})

MigrationReturned == call.fn = "generateMigrationSQL" /\ ~result.threw

WellFormed(c) ==
    /\ ~MissingColumn(getMetadata("foreign_keys", c), getAllColumnsFromHierarchy(c))
    /\ ~MissingColumn(getMetadata("vector_columns", c), getAllColumnsFromHierarchy(c))

\* the table of entity c is in the schema with every declared column (same type
\* and nullability), every vector column and every declared foreign key
TableMatches(c, snapshot) ==
    LET tableName == getTableName(c)
        columns == getAllColumnsFromHierarchy(c)
        foreignKeys == getMetadata("foreign_keys", c)
    IN  /\ WellFormed(c)
        /\ HasTableInfo(snapshot, tableName)
        /\ \A i \in 1..Len(columns) :
            /\ HasColumnInfo(snapshot[tableName], columns[i].name)
            /\ ~columns[i].isVector =>
                LET info == FindColumnInfo(snapshot[tableName], columns[i].name)
                IN  /\ toLowerCase(info.data_type) = toLowerCase(columns[i].type)
                    /\ info.is_nullable = (IF columns[i].nullable THEN "YES" ELSE "NO")
        /\ \A i \in 1..Len(foreignKeys) :
            HasFkInfo(snapshot[tableName],
                      Lookup(columns, foreignKeys[i].key).name, foreignKeys[i])

SchemaMatches ==
    \A i \in 1..Len(entityClasses) : TableMatches(entityClasses[i], currentSchema)

(***************************************************************************)
(* C1: when the schema already matches every entity, the script returned   *)
(* by generateMigrationSQL trims to exactly the extension line, the value  *)
(* runMigration compares against.                                          *)
(***************************************************************************)
C1_MatchingSchemaTrimsToExtension ==
    (call.fn = "generateMigrationSQL" /\ SchemaMatches)
        => (~result.threw /\ trim(result.sql) = <<ExtensionLine>>)

(***************************************************************************)
(* C2: for an entity whose table exists, the structure pass holds no       *)
(* foreign-key statement, and the whole script adds each declared foreign  *)
(* key once when the snapshot lacks it and never when it holds it.         *)
(***************************************************************************)
AddsForeignKey(line, tableName, columnName, metadata) ==
    /\ IsAddConstraint(line)
    /\ line.table = tableName
    /\ line.column = columnName
    /\ line.refTable = metadata.tableName
    /\ line.refColumn = metadata.columnName

C2_ExistingTableForeignKeyAddedOnce ==
    MigrationReturned =>
        \A i \in 1..Len(entityClasses) :
            LET c == entityClasses[i]
                tableName == getTableName(c)
                columns == getAllColumnsFromHierarchy(c)
                foreignKeys == getMetadata("foreign_keys", c)
            IN  HasTableInfo(currentSchema, tableName) =>
                /\ \A k \in 1..Len(result.sql) :
                    (InStructurePass(result.sql, k) /\ result.sql[k].table = tableName)
                        => ~IsAddConstraint(result.sql[k])
                /\ \A f \in 1..Len(foreignKeys) :
                    LET columnName == Lookup(columns, foreignKeys[f].key).name
                        Adds(line) == AddsForeignKey(line, tableName, columnName,
                                                     foreignKeys[f])
                    IN  Count(result.sql, Adds) =
                            (IF HasFkInfo(currentSchema[tableName], columnName,
                                          foreignKeys[f])
                             THEN 0 ELSE 1)

(***************************************************************************)
(* C3: A references B, B's table is in the schema exactly as declared and  *)
(* A's table is absent: the structure pass creates A without foreign keys, *)
(* the foreign-key pass adds A's constraint once, and no statement is for  *)
(* B.                                                                      *)
(***************************************************************************)
References(a, b) ==
    LET foreignKeys == getMetadata("foreign_keys", a)
    IN  \E f \in 1..Len(foreignKeys) : foreignKeys[f].tableName = getTableName(b)

\* the array is A and B in either order, A well-formed with its one foreign
\* key to B, B matching the schema, A's table absent
C3_Case(a, b) ==
    /\ Len(entityClasses) = 2
    /\ {a, b} = {entityClasses[1], entityClasses[2]}
    /\ a # b
    /\ WellFormed(a)
    /\ Len(getMetadata("foreign_keys", a)) = 1
    /\ References(a, b)
    /\ TableMatches(b, currentSchema)
    /\ ~HasTableInfo(currentSchema, getTableName(a))

C3_Holds(a, b) ==
    LET sql == result.sql
        ta == getTableName(a)
        tb == getTableName(b)
        CreatesA(line) == IsCreateTable(line) /\ line.table = ta
        ConstrainsA(line) == IsAddConstraint(line) /\ line.table = ta
        ForB(line) == IsStatement(line) /\ line.table = tb
    IN  /\ ~result.threw
        /\ Count(sql, CreatesA) = 1
        /\ \A k \in 1..Len(sql) :
            /\ CreatesA(sql[k]) =>
                /\ InStructurePass(sql, k)
                /\ \A d \in 1..Len(sql[k].defs) : sql[k].defs[d].kind # "FOREIGN KEY"
            /\ ConstrainsA(sql[k]) => InForeignKeyPass(sql, k)
        /\ Count(sql, ConstrainsA) = 1
        /\ Count(sql, ForB) = 0

C3_NewTableReferencingMatchingTable ==
    call.fn = "generateMigrationSQL" =>
        \A a, b \in Classes : C3_Case(a, b) => C3_Holds(a, b)

C3_Witness ==
    /\ MigrationReturned
    /\ C3_Case("Post", "User")
    /\ entityClasses = <<"User", "Post">>

(***************************************************************************)
(* C4: every ADD CONSTRAINT ... FOREIGN KEY line comes after the CREATE    *)
(* TABLE line of every table the same script creates that the constraint   *)
(* names, its own table or the referenced one.                             *)
(***************************************************************************)
C4_ForeignKeysAfterCreates ==
    MigrationReturned =>
        \A k, m \in 1..Len(result.sql) :
            (/\ IsAddConstraint(result.sql[k])
             /\ IsCreateTable(result.sql[m])
             /\ result.sql[m].table \in {result.sql[k].table, result.sql[k].refTable})
                => m < k

(***************************************************************************)
(* C5: on an empty schema and an acyclic foreign-key graph, the CREATE     *)
(* TABLE of a referenced table comes before the CREATE TABLE of every      *)
(* table holding a foreign key to it, whatever the array order.            *)
(***************************************************************************)
RefEdges(entities) ==
    {<<a, b>> \in entities \X entities : References(a, b)}

RECURSIVE ReachableIn(_, _, _)
ReachableIn(edges, from, steps) ==
    IF steps = 0 THEN from
    ELSE ReachableIn(edges,
                     from \cup {e[2] : e \in {x \in edges : x[1] \in from}},
                     steps - 1)

Acyclic(entities) ==
    \A a \in entities :
        a \notin ReachableIn(RefEdges(entities),
                             {e[2] : e \in {x \in RefEdges(entities) : x[1] = a}},
                             Cardinality(entities))

ElementsOf(a) == {a[i] : i \in 1..Len(a)}

C5_CreatesInDependencyOrder ==
    (/\ MigrationReturned
     /\ DOMAIN currentSchema = {}
     /\ Acyclic(ElementsOf(entityClasses)))
        => \A k, m \in 1..Len(result.sql) :
            (/\ IsCreateTable(result.sql[k])
             /\ IsCreateTable(result.sql[m])
             /\ References(ClassOfTable(result.sql[k].table),
                           ClassOfTable(result.sql[m].table)))
                => m < k

(***************************************************************************)
(* C6: both passes go through the array in array order, and the structure  *)
(* pass is over before the foreign-key pass starts.  A foreign-key-pass    *)
(* statement is a deferred ADD CONSTRAINT; every other statement belongs   *)
(* to the structure pass.                                                  *)
(***************************************************************************)
IsForeignKeyPassStatement(line) == IsAddConstraint(line) /\ line.deferred

IsStructurePassStatement(line) == IsStatement(line) /\ ~IsForeignKeyPassStatement(line)

PositionOf(tableName) ==
    CHOOSE i \in 1..Len(entityClasses) : getTableName(entityClasses[i]) = tableName

C10_MalformedEntityRejected ==
    /\ (call.fn \in {"generateTableSQL", "generateAlterTableSQL"}
        /\ ~WellFormed(call.entityClass)) => result.threw
    /\ (call.fn = "generateMigrationSQL"
        /\ \E i \in 1..Len(entityClasses) : ~WellFormed(entityClasses[i]))
            => result.threw

(***************************************************************************)
(* C7: a non-dry run that fails at any step leaves no effect of the run in *)
(* the database once runMigration is over, the vector extension included.  *)
(***************************************************************************)
C7_FailedRunLeavesNoEffect ==
    (pc = "exited" /\ ~dryRun) => runApplied = {}

(***************************************************************************)
(* C8: a dry run sends nothing but the read-only catalog queries (no       *)
(* BEGIN, CREATE EXTENSION, script, COMMIT or ROLLBACK) and changes        *)
(* nothing in the database, whether it ends well or fails.                 *)
(***************************************************************************)
C8_DryRunOnlyReads ==
    dryRun =>
        /\ \A i \in 1..Len(sent) : sent[i] = Log("pool", "catalog")
        /\ runApplied = {}
        /\ txn = "none"
        /\ ~pending.has

\* a dry run that ended well with a script holding statements it did not send
C8_Witness ==
    /\ dryRun
    /\ pc = "done"
    /\ MigrationReturned
    /\ Count(result.sql, IsStatement) > 0
    /\ Len(sent) > 1

(***************************************************************************)
(* C9: the schema the diff decisions of a run are taken on equals one      *)
(* single state the database was in, whatever another session commits      *)
(* between two catalog queries.                                            *)
(***************************************************************************)
C9_SnapshotIsOneDatabaseState ==
    (pc # "idle" /\ call.fn = "generateMigrationSQL") => currentSchema \in observed

(***************************************************************************)
(* C19: getCurrentSchema answers a database without base tables with the   *)
(* empty map, and when one of its catalog queries fails the caller gets    *)
(* nothing of what was built: it holds a snapshot only once every query    *)
(* was answered.                                                           *)
(***************************************************************************)
IntrospectionPcs ==
    {"tables", "columns", "primaryKey", "foreignKeys", "unique", "indexes"}

C19_SnapshotWholeOrNone ==
    /\ pc \in IntrospectionPcs => currentSchema = << >>
    /\ (pc \in {"catch", "exited", "done"} /\ call = NoCall) => currentSchema = << >>
    /\ (pc = "generate" /\ tablesResult = << >>) => currentSchema = << >>
    /\ pc = "generate" => currentSchema = schema

\* a catalog query failed after part of the snapshot was built
C19_Witness ==
    /\ pc = "catch"
    /\ call = NoCall
    /\ schema # << >>
    /\ currentSchema = << >>

\* introspection of a database without base tables ended well
C19_WitnessEmpty ==
    /\ pc = "generate"
    /\ tablesResult = << >>
    /\ tableIdx = 1
    /\ currentSchema = << >>

(***************************************************************************)
(* What the decorators declared, read off the classes: the foreign keys    *)
(* and the columns of a class and its ancestors, the class's own           *)
(* descriptor standing for a property its ancestors declare too.           *)
(***************************************************************************)
RECURSIVE Chain(_)
Chain(c) == IF c = "Function" THEN << >> ELSE <<c>> \o Chain(Parent[c])

DeclaredForeignKeys(c) ==
    UNION {{OwnForeignKeys[Chain(c)[k]][i] :
                i \in 1..Len(OwnForeignKeys[Chain(c)[k]])} :
           k \in 1..Len(Chain(c))}

RECURSIVE DeclaredWalk(_, _)
DeclaredWalk(merged, c) ==
    IF c = "Function" THEN merged
    ELSE DeclaredWalk(MergeMissing(merged, OwnColumns[c]), Parent[c])

DeclaredColumns(c) == DeclaredWalk(<< >>, c)

DeclaredColumnNames(c) ==
    {DeclaredColumns(c)[i].name : i \in 1..Len(DeclaredColumns(c))}

AsMapping(entries) == {entries[i] : i \in 1..Len(entries)}

(***************************************************************************)
(* C11: a foreign key declared on an ancestor of a @Table class belongs to *)
(* the class: generateTableSQL(class, true) holds a FOREIGN KEY            *)
(* definition for it, and the foreign-key pass of generateMigrationSQL     *)
(* adds it when the snapshot does not hold it.                             *)
(***************************************************************************)
C11_InheritedForeignKeyEmitted ==
    /\ (call.fn = "generateTableSQL" /\ call.includeForeignKeys /\ ~result.threw) =>
         \A fk \in DeclaredForeignKeys(call.entityClass) :
            \E d \in 1..Len(result.sql[1].defs) :
                /\ result.sql[1].defs[d].kind = "FOREIGN KEY"
                /\ result.sql[1].defs[d].column =
                       Lookup(DeclaredColumns(call.entityClass), fk.key).name
                /\ result.sql[1].defs[d].refTable = fk.tableName
                /\ result.sql[1].defs[d].refColumn = fk.columnName
    /\ MigrationReturned =>
         \A i \in 1..Len(entityClasses) :
            LET c == entityClasses[i]
                t == getTableName(c)
            IN  \A fk \in DeclaredForeignKeys(c) :
                   LET columnName == Lookup(DeclaredColumns(c), fk.key).name
                   IN  (~HasTableInfo(currentSchema, t)
                        \/ ~HasFkInfo(currentSchema[t], columnName, fk)) =>
                       \E k \in 1..Len(result.sql) :
                           /\ InForeignKeyPass(result.sql, k)
                           /\ AddsForeignKey(result.sql[k], t, columnName, fk)

(***************************************************************************)
(* C12: for every class the column resolver of the migration generator and *)
(* the column resolver of the row operations give the same mapping from    *)
(* property to column: the ancestors' columns merged with the class's own, *)
(* the class's own descriptor winning on a property both declare.          *)
(***************************************************************************)
C12_ResolversAgree ==
    \A i \in 1..Len(entityClasses) :
        LET c == entityClasses[i]
        IN  /\ AsMapping(getAllColumnsFromHierarchy(c))
                 = AsMapping(getAllColumnsFromHierarchyOps(c))
            /\ AsMapping(getAllColumnsFromHierarchyOps(c))
                 = AsMapping(DeclaredColumns(c))

(***************************************************************************)
(* C13: no call of a generator or of a row operation changes the metadata  *)
(* registered for any class, and generateTableSQL(E) gives the same text   *)
(* after the call as before it.                                            *)
(***************************************************************************)
C13_MetadataNeverChanges ==
    [][/\ columnsMetadata' = columnsMetadata
       /\ \A i \in 1..Len(entityClasses) :
            generateTableSQL(entityClasses[i], TRUE)'
              = generateTableSQL(entityClasses[i], TRUE)]_vars

(***************************************************************************)
(* C14: among classes none of which is an ancestor of another, the columns *)
(* rendered for the table of an entity are the columns declared on its     *)
(* class and its ancestors, and never a column only another entity         *)
(* declares, whatever was called before.                                   *)
(***************************************************************************)
\* the columns a script names for a table it creates or extends
RenderedColumns(sql, t) ==
    UNION {IF sql[k].kind = "CREATE TABLE"
           THEN {sql[k].defs[d].name :
                    d \in {e \in 1..Len(sql[k].defs) : sql[k].defs[e].kind = "column"}}
           ELSE {sql[k].column} :
           k \in {j \in 1..Len(sql) :
                    /\ sql[j].kind \in {"CREATE TABLE", "ADD COLUMN", "ADD VECTOR COLUMN"}
                    /\ sql[j].table = t}}

C15_MigrationSqlIsPure ==
    [][/\ generateMigrationSQL(entityClasses, currentSchema)'
            = generateMigrationSQL(entityClasses, currentSchema)
       /\ MetaGenerateMigrationSQL =>
            /\ currentSchema' = currentSchema
            /\ sent' = sent
            /\ stmts' = stmts
            /\ dbTables' = dbTables]_vars

(***************************************************************************)
(* C20: between "(" and ");" of a CREATE TABLE the definitions stand with  *)
(* exactly one comma between two neighbours, none before the first and     *)
(* none after the last, whatever the number of foreign keys and of primary *)
(* key columns and whether foreign keys are included.                      *)
(***************************************************************************)
CommasWellPlaced(line) ==
    /\ Len(line.body) = IF line.defs = << >> THEN 0 ELSE 2 * Len(line.defs) - 1
    /\ \A i \in 1..Len(line.body) :
          IF i % 2 = 1 THEN line.body[i] = line.defs[(i + 1) \div 2]
          ELSE line.body[i] = Comma
    /\ \A i \in 1..Len(line.defs) : line.defs[i] # Comma

C20_OneCommaBetweenDefinitions ==
    (call.fn \in {"generateTableSQL", "generateMigrationSQL"} /\ ~result.threw) =>
        \A k \in 1..Len(result.sql) :
            IsCreateTable(result.sql[k]) => CommasWellPlaced(result.sql[k])

\* generateTableSQL(Like, true): three columns, a primary key, two foreign keys
C20_Witness ==
    /\ call.fn = "generateTableSQL"
    /\ call.entityClass = "Like"
    /\ call.includeForeignKeys
    /\ ~result.threw
    /\ Len(result.sql[1].defs) = 6
    /\ Len(result.sql[1].body) = 11

\* generateTableSQL(Audit, false): one column, no primary key, no foreign key
C20_WitnessSingle ==
    /\ call.fn = "generateTableSQL"
    /\ call.entityClass = "Audit"
    /\ ~result.threw
    /\ result.sql[1].body = result.sql[1].defs
    /\ Len(result.sql[1].defs) = 1

(***************************************************************************)
(* withTransaction and withSavepoint.  The calls in progress are frames on *)
(* stack, the innermost last; every call nested in a callback is handed    *)
(* the client of the outermost one, so every statement goes out on one     *)
(* session of the server.  A write is numbered; working holds the writes   *)
(* of the open transaction, committed the durable ones.                    *)
(***************************************************************************)
MaxDepth == 3

MaxCalls == 3

MaxWrites == 2

SavepointNames == {"sp_a", "sp_b"}

NoError == [kind |-> "none", stmt |-> "", depth |-> 0]

\* what a callback throws of its own
CallbackError(depth) == [kind |-> "callback", stmt |-> "", depth |-> depth]

\* what client.query rejects with
QueryError(stmt, depth) == [kind |-> "query", stmt |-> stmt, depth |-> depth]

Stmt(kind, name, w) == [kind |-> kind, name |-> name, w |-> w]

Reply(ok, s, w, c, sp) ==
    [ok |-> ok, session |-> s, working |-> w, committed |-> c, savepoints |-> sp]

\* the statement fails and changes nothing
Refused == Reply(FALSE, session, working, committed, savepoints)

\* the statement fails inside a transaction, which is aborted by it
Aborts ==
    IF session = "idle" THEN Refused
    ELSE Reply(FALSE, "aborted", working, committed, savepoints)

\* the most recent savepoint of that name, 0 when there is none
LastNamed(name) ==
    LET S == {i \in 1..Len(savepoints) : savepoints[i].name = name}
    IN  IF S = {} THEN 0 ELSE CHOOSE i \in S : \A j \in S : j <= i

(***************************************************************************)
(* The server's answer to a statement of the session.  violates: the write *)
(* breaks a constraint.                                                    *)
(***************************************************************************)
Exec(stmt, violates) ==
    IF session = "broken" THEN Refused
    ELSE CASE stmt.kind = "BEGIN" ->
                IF session = "idle"
                THEN Reply(TRUE, "open", {}, committed, << >>)
                ELSE IF session = "open"
                     THEN Reply(TRUE, session, working, committed, savepoints)
                     ELSE Refused
           [] stmt.kind = "COMMIT" ->
                IF session = "open"
                THEN Reply(TRUE, "idle", {}, committed \cup working, << >>)
                ELSE Reply(TRUE, "idle", {}, committed, << >>)
           [] stmt.kind = "ROLLBACK" ->
                Reply(TRUE, "idle", {}, committed, << >>)
           [] stmt.kind = "write" ->
                IF session = "aborted" \/ violates THEN Aborts
                ELSE IF session = "open"
                     THEN Reply(TRUE, session, working \cup {stmt.w}, committed,
                                savepoints)
                     ELSE Reply(TRUE, session, working, committed \cup {stmt.w},
                                savepoints)
           [] stmt.kind = "SAVEPOINT" ->
                IF session = "open"
                THEN Reply(TRUE, session, working, committed,
                           Append(savepoints,
                                  [name |-> stmt.name, snap |-> working]))
                ELSE Refused
           [] stmt.kind = "RELEASE SAVEPOINT" ->
                IF session = "open" /\ LastNamed(stmt.name) > 0
                THEN Reply(TRUE, session, working, committed,
                           SubSeq(savepoints, 1, LastNamed(stmt.name) - 1))
                ELSE Aborts
           [] stmt.kind = "ROLLBACK TO SAVEPOINT" ->
                IF session \in {"open", "aborted"} /\ LastNamed(stmt.name) > 0
                THEN Reply(TRUE, "open", savepoints[LastNamed(stmt.name)].snap,
                           committed,
                           SubSeq(savepoints, 1, LastNamed(stmt.name)))
                ELSE Aborts

\* client.query(stmt): the statement goes out and the session moves
Send(stmt, violates) ==
    LET r == Exec(stmt, violates)
    IN  /\ session' = r.session
        /\ working' = r.working
        /\ committed' = r.committed
        /\ savepoints' = r.savepoints
        /\ stmts' = Append(stmts, [kind |-> stmt.kind, name |-> stmt.name,
                                   w |-> stmt.w, ok |-> r.ok,
                                   depth |-> Len(stack)])

Frame(fn, own, name) ==
    [fn |-> fn,                \* withTransaction or withSavepoint
     own |-> own,              \* shouldReleaseClient
     name |-> name,            \* the savepoint's name
     depth |-> Len(stack) + 1, \* its place on the stack
     pc |-> "begin",
     cb |-> "none",            \* how the callback ended: resolved, rejected
     cbError |-> NoError,      \* what the callback rejected with
     cbResult |-> 0,           \* what the callback resolved with
     error |-> NoError,        \* the error caught
     outcome |-> "none",       \* returned, threw
     value |-> 0,              \* the value returned
     releases |-> 0,           \* client.release() calls made by this call
     at |-> 0,                 \* the place in stmts of its BEGIN / SAVEPOINT
     firstWrite |-> 0,         \* the first write its callback can make
     snap |-> {},              \* working when its SAVEPOINT was taken
     innerReturned |-> FALSE,  \* a withTransaction nested in its callback returned
     end |-> 0,                \* the place in stmts of its last statement
     state |-> "none",         \* the session when it ended
     left |-> {}]              \* working when it ended

Top == stack[Len(stack)]

SetTop(f) == [stack EXCEPT ![Len(stack)] = f]

\* the callback of frame f rejects with error e: control goes to the catch block
Rejected(f, e) ==
    [f EXCEPT !.cb = "rejected", !.cbError = e, !.error = e, !.pc = "rollback"]

\* the calls made so far
CallsMade ==
    Cardinality({k \in 1..Len(stmts) : stmts[k].kind \in {"BEGIN", "SAVEPOINT"}})
    + (IF stack # << >> /\ Top.pc = "begin" THEN 1 ELSE 0)

(***************************************************************************)
(* The call of the top frame ends as f says.  Its caller, a callback,      *)
(* goes on when the call returned or when it catches what the call threw,  *)
(* and rejects with what the call threw otherwise.                         *)
(***************************************************************************)
EndCall(f, catches) ==
    /\ last' = [f EXCEPT !.end = Len(stmts'), !.state = session',
                          !.left = working']
    /\ IF Len(stack) = 1 THEN stack' = << >>
       ELSE LET p == stack[Len(stack) - 1]
                q == IF f.outcome = "returned"
                     THEN [p EXCEPT !.innerReturned =
                                       @ \/ f.fn = "withTransaction"]
                     ELSE IF catches THEN p ELSE Rejected(p, f.error)
            IN  stack' = Append(SubSeq(stack, 1, Len(stack) - 2), q)

TxnInit ==
    /\ MetaIdle
    /\ TxIdle
    /\ StoreIdle
    /\ RunIdle
    /\ entityClasses = << >>
    /\ currentSchema = << >>
    /\ call = NoCall
    /\ result = Returned(<< >>)

\* withTransaction(callback) by the application, with or without a client of
\* its own, or withTransaction(callback, client) inside a callback
CallWithTransaction ==
    /\ CallsMade < MaxCalls
    /\ \/ /\ stack = << >>
          /\ last = NoLast
          /\ \E existingClient \in BOOLEAN :
                stack' = <<Frame("withTransaction", ~existingClient, "")>>
       \/ /\ stack # << >>
          /\ Top.pc = "callback"
          /\ Len(stack) < MaxDepth
          /\ stack' = Append(stack, Frame("withTransaction", FALSE, ""))
    /\ UNCHANGED <<session, working, committed, savepoints, stmts, released,
                   last, nextWrite>>
    /\ UNCHANGED <<genVars, runVars, metaVars, storeVars>>

\* withSavepoint(name, callback, client) inside a callback
CallWithSavepoint ==
    /\ CallsMade < MaxCalls
    /\ stack # << >>
    /\ Top.pc = "callback"
    /\ Len(stack) < MaxDepth
    /\ \E name \in SavepointNames :
          stack' = Append(stack, Frame("withSavepoint", FALSE, name))
    /\ UNCHANGED <<session, working, committed, savepoints, stmts, released,
                   last, nextWrite>>
    /\ UNCHANGED <<genVars, runVars, metaVars, storeVars>>

\* await client.query('BEGIN')
Begin ==
    /\ stack # << >>
    /\ Top.fn = "withTransaction"
    /\ Top.pc = "begin"
    /\ Send(Stmt("BEGIN", "", 0), FALSE)
    /\ stack' = SetTop(IF Exec(Stmt("BEGIN", "", 0), FALSE).ok
                       THEN [Top EXCEPT !.pc = "callback",
                                        !.at = Len(stmts) + 1,
                                        !.firstWrite = nextWrite]
                       ELSE [Top EXCEPT !.pc = "rollback",
                                        !.error = QueryError("BEGIN", Len(stack))])
    /\ UNCHANGED <<released, last, nextWrite>>
    /\ UNCHANGED <<genVars, runVars, metaVars, storeVars>>

\* await client.query(`SAVEPOINT ${name}`)
Savepoint ==
    /\ stack # << >>
    /\ Top.fn = "withSavepoint"
    /\ Top.pc = "begin"
    /\ Send(Stmt("SAVEPOINT", Top.name, 0), FALSE)
    /\ stack' = SetTop(IF Exec(Stmt("SAVEPOINT", Top.name, 0), FALSE).ok
                       THEN [Top EXCEPT !.pc = "callback",
                                        !.at = Len(stmts) + 1,
                                        !.firstWrite = nextWrite,
                                        !.snap = working]
                       ELSE [Top EXCEPT !.pc = "rollback",
                                        !.error = QueryError("SAVEPOINT", Len(stack))])
    /\ UNCHANGED <<released, last, nextWrite>>
    /\ UNCHANGED <<genVars, runVars, metaVars, storeVars>>

\* the callback writes a row through the client; it catches the failure of
\* the write or rejects with it
CallbackWrites ==
    /\ stack # << >>
    /\ Top.pc = "callback"
    /\ nextWrite <= MaxWrites
    /\ \E violates \in BOOLEAN, catches \in BOOLEAN :
          /\ Send(Stmt("write", "", nextWrite), violates)
          /\ stack' = IF Exec(Stmt("write", "", nextWrite), violates).ok \/ catches
                      THEN stack
                      ELSE SetTop(Rejected(Top, QueryError("write", Len(stack))))
    /\ nextWrite' = nextWrite + 1
    /\ UNCHANGED <<released, last>>
    /\ UNCHANGED <<genVars, runVars, metaVars, storeVars>>

\* the callback's promise resolves
CallbackResolves ==
    /\ stack # << >>
    /\ Top.pc = "callback"
    /\ stack' = SetTop([Top EXCEPT !.cb = "resolved", !.cbResult = Len(stack),
                                   !.pc = "commit"])
    /\ UNCHANGED <<session, working, committed, savepoints, stmts, released,
                   last, nextWrite>>
    /\ UNCHANGED <<genVars, runVars, metaVars, storeVars>>

\* the callback throws an error of its own
CallbackRejects ==
    /\ stack # << >>
    /\ Top.pc = "callback"
    /\ stack' = SetTop(Rejected(Top, CallbackError(Len(stack))))
    /\ UNCHANGED <<session, working, committed, savepoints, stmts, released,
                   last, nextWrite>>
    /\ UNCHANGED <<genVars, runVars, metaVars, storeVars>>

\* await client.query('COMMIT'); return result
Commit ==
    /\ stack # << >>
    /\ Top.fn = "withTransaction"
    /\ Top.pc = "commit"
    /\ Send(Stmt("COMMIT", "", 0), FALSE)
    /\ stack' = SetTop(IF Exec(Stmt("COMMIT", "", 0), FALSE).ok
                       THEN [Top EXCEPT !.pc = "finally",
                                        !.outcome = "returned",
                                        !.value = Top.cbResult]
                       ELSE [Top EXCEPT !.pc = "rollback",
                                        !.error = QueryError("COMMIT", Len(stack))])
    /\ UNCHANGED <<released, last, nextWrite>>
    /\ UNCHANGED <<genVars, runVars, metaVars, storeVars>>

\* catch (error) { await client.query('ROLLBACK'); throw error }
Rollback ==
    /\ stack # << >>
    /\ Top.fn = "withTransaction"
    /\ Top.pc = "rollback"
    /\ Send(Stmt("ROLLBACK", "", 0), FALSE)
    /\ stack' = SetTop(IF Exec(Stmt("ROLLBACK", "", 0), FALSE).ok
                       THEN [Top EXCEPT !.pc = "finally", !.outcome = "threw"]
                       ELSE [Top EXCEPT !.pc = "finally", !.outcome = "threw",
                                        !.error = QueryError("ROLLBACK", Len(stack))])
    /\ UNCHANGED <<released, last, nextWrite>>
    /\ UNCHANGED <<genVars, runVars, metaVars, storeVars>>

\* finally { if (shouldReleaseClient) client.release() }, and the call ends
Finally ==
    /\ stack # << >>
    /\ Top.fn = "withTransaction"
    /\ Top.pc = "finally"
    /\ released' = released + (IF Top.own THEN 1 ELSE 0)
    /\ UNCHANGED <<session, working, committed, savepoints, stmts, nextWrite>>
    /\ \E catches \in BOOLEAN :
          EndCall([Top EXCEPT !.pc = "done",
                              !.releases = IF Top.own THEN 1 ELSE 0], catches)
    /\ UNCHANGED <<genVars, runVars, metaVars, storeVars>>

\* await client.query(`RELEASE SAVEPOINT ${name}`); return result
ReleaseSavepoint ==
    /\ stack # << >>
    /\ Top.fn = "withSavepoint"
    /\ Top.pc = "commit"
    /\ Send(Stmt("RELEASE SAVEPOINT", Top.name, 0), FALSE)
    /\ IF Exec(Stmt("RELEASE SAVEPOINT", Top.name, 0), FALSE).ok
       THEN \E catches \in BOOLEAN :
               EndCall([Top EXCEPT !.pc = "done", !.outcome = "returned",
                                   !.value = Top.cbResult], catches)
       ELSE /\ stack' = SetTop([Top EXCEPT !.pc = "rollback",
                                   !.error = QueryError("RELEASE SAVEPOINT",
                                                        Len(stack))])
            /\ last' = last
    /\ UNCHANGED <<released, nextWrite>>
    /\ UNCHANGED <<genVars, runVars, metaVars, storeVars>>

\* catch (error) { await client.query(`ROLLBACK TO SAVEPOINT ${name}`); throw error }
RollbackToSavepoint ==
    /\ stack # << >>
    /\ Top.fn = "withSavepoint"
    /\ Top.pc = "rollback"
    /\ Send(Stmt("ROLLBACK TO SAVEPOINT", Top.name, 0), FALSE)
    /\ \E catches \in BOOLEAN :
          EndCall(IF Exec(Stmt("ROLLBACK TO SAVEPOINT", Top.name, 0), FALSE).ok
                  THEN [Top EXCEPT !.pc = "done", !.outcome = "threw"]
                  ELSE [Top EXCEPT !.pc = "done", !.outcome = "threw",
                                   !.error = QueryError("ROLLBACK TO SAVEPOINT",
                                                        Len(stack))],
                  catches)
    /\ UNCHANGED <<released, nextWrite>>
    /\ UNCHANGED <<genVars, runVars, metaVars, storeVars>>

\* the connection of the client is lost: the server drops the open
\* transaction and every later client.query rejects
ConnectionLost ==
    /\ stack # << >>
    /\ session # "broken"
    /\ session' = "broken"
    /\ working' = {}
    /\ savepoints' = << >>
    /\ UNCHANGED <<stack, committed, stmts, released, last, nextWrite>>
    /\ UNCHANGED <<genVars, runVars, metaVars, storeVars>>

TxnNext ==
    \/ CallWithTransaction
    \/ CallWithSavepoint
    \/ Begin
    \/ Savepoint
    \/ CallbackWrites
    \/ CallbackResolves
    \/ CallbackRejects
    \/ Commit
    \/ Rollback
    \/ Finally
    \/ ReleaseSavepoint
    \/ RollbackToSavepoint
    \/ ConnectionLost

SpecTxn == TxnInit /\ [][TxnNext]_vars

(***************************************************************************)
(* C16: withTransaction sends BEGIN before the callback runs; when the     *)
(* callback resolves it sends COMMIT and returns the callback's result;    *)
(* when the callback rejects it sends ROLLBACK and throws the callback's   *)
(* error; it releases the client once when it took it from the pool, on    *)
(* every path, and never when the caller supplied it.                      *)
(***************************************************************************)
\* the call of frame f sent that statement after its callback had begun
SentAfterCallback(f, kind) ==
    \E k \in (f.at + 1)..Len(stmts) :
        stmts[k].kind = kind /\ stmts[k].depth = f.depth

CommitSucceeded(f) ==
    \E k \in (f.at + 1)..Len(stmts) :
        stmts[k].kind = "COMMIT" /\ stmts[k].depth = f.depth /\ stmts[k].ok

C16_TransactionContract ==
    /\ \A d \in 1..Len(stack) :
          (stack[d].fn = "withTransaction"
           /\ (stack[d].pc = "callback" \/ stack[d].cb # "none")) =>
             /\ stack[d].at > 0
             /\ stmts[stack[d].at].kind = "BEGIN"
             /\ stmts[stack[d].at].depth = d
             /\ stack[d].releases = 0
    /\ last.fn = "withTransaction" =>
          /\ last.cb = "resolved" =>
                /\ SentAfterCallback(last, "COMMIT")
                /\ CommitSucceeded(last) =>
                      last.outcome = "returned" /\ last.value = last.cbResult
          /\ last.cb = "rejected" =>
                /\ SentAfterCallback(last, "ROLLBACK")
                /\ last.outcome = "threw"
                /\ last.error = last.cbError
          /\ last.releases = IF last.own THEN 1 ELSE 0
          /\ (last.depth = 1 /\ stack = << >>) =>
                released = IF last.own THEN 1 ELSE 0

(***************************************************************************)
(* C17: when the callback of an outer withTransaction rejects after a      *)
(* withTransaction nested in it on the same client has returned, the outer *)
(* call leaves nothing committed: no write of the outer callback, those of *)
(* the inner call included.                                                *)
(***************************************************************************)
C17_OuterRollbackUndoesInner ==
    (/\ last.fn = "withTransaction"
     /\ last.depth = 1
     /\ last.cb = "rejected"
     /\ last.innerReturned) => committed = {}

(***************************************************************************)
(* C18: when the callback of withSavepoint rejects inside an open          *)
(* transaction, withSavepoint rolls back to its savepoint and throws the   *)
(* callback's error: the writes made since the savepoint are undone, those *)
(* made before it are kept, and the transaction is open.  The connection   *)
(* holds and the callback neither commits nor rolls back the transaction.  *)
(***************************************************************************)
\* the savepoint of call f was taken in a transaction that no statement
\* ended before the call did, on a connection that held
SavepointIntact(f) ==
    /\ f.at > 0
    /\ f.state # "broken"
    /\ \A k \in (f.at + 1)..f.end :
          /\ stmts[k].kind \notin {"BEGIN", "COMMIT", "ROLLBACK"}
          /\ stmts[k].kind \in {"ROLLBACK TO SAVEPOINT", "RELEASE SAVEPOINT",
                                "SAVEPOINT"} => stmts[k].ok

C18_SavepointRollbackUndoesItsWrites ==
    (/\ last.fn = "withSavepoint"
     /\ last.cb = "rejected"
     /\ SavepointIntact(last)) =>
        /\ stmts[last.end].kind = "ROLLBACK TO SAVEPOINT"
        /\ stmts[last.end].name = last.name
        /\ last.outcome = "threw"
        /\ last.error = last.cbError
        /\ last.state = "open"
        /\ last.left = last.snap

(***************************************************************************)
(* quoteIdentifier and escapeSqlString applied to strings.  A string is a  *)
(* sequence of characters over CodecChars, at most MaxLen long.            *)
(***************************************************************************)
MaxLen == 3

CodecChars == {"a", "s", "S", "o", "N", "1", "_", "-", "'"}

UpperLetters ==
    {"A", "B", "C", "D", "E", "F", "G", "H", "I", "J", "K", "L", "M", "N", "O",
     "P", "Q", "R", "S", "T", "U", "V", "W", "X", "Y", "Z"}

\* const reservedKeywords = [...]
reservedKeywords ==
    {<<"a", "l", "l">>, <<"a", "n", "a", "l", "y", "s", "e">>,
     <<"a", "n", "a", "l", "y", "z", "e">>, <<"a", "n", "d">>,
     <<"a", "n", "y">>, <<"a", "r", "r", "a", "y">>, <<"a", "s">>,
     <<"a", "s", "c">>, <<"a", "s", "y", "m", "m", "e", "t", "r", "i", "c">>,
     <<"a", "u", "t", "h", "o", "r", "i", "z", "a", "t", "i", "o", "n">>,
     <<"b", "i", "n", "a", "r", "y">>, <<"b", "o", "t", "h">>,
     <<"c", "a", "s", "e">>, <<"c", "a", "s", "t">>,
     <<"c", "h", "e", "c", "k">>, <<"c", "o", "l", "l", "a", "t", "e">>,
     <<"c", "o", "l", "u", "m", "n">>,
     <<"c", "o", "n", "s", "t", "r", "a", "i", "n", "t">>,
     <<"c", "r", "e", "a", "t", "e">>, <<"c", "r", "o", "s", "s">>,
     <<"c", "u", "r", "r", "e", "n", "t", "_", "c", "a", "t", "a", "l", "o", "g">>,
     <<"c", "u", "r", "r", "e", "n", "t", "_", "d", "a", "t", "e">>,
     <<"c", "u", "r", "r", "e", "n", "t", "_", "r", "o", "l", "e">>,
     <<"c", "u", "r", "r", "e", "n", "t", "_", "s", "c", "h", "e", "m", "a">>,
     <<"c", "u", "r", "r", "e", "n", "t", "_", "t", "i", "m", "e">>,
     <<"c", "u", "r", "r", "e", "n", "t", "_", "t", "i", "m", "e", "s", "t", "a", "m", "p">>,
     <<"c", "u", "r", "r", "e", "n", "t", "_", "u", "s", "e", "r">>,
     <<"d", "e", "f", "a", "u", "l", "t">>,
     <<"d", "e", "f", "e", "r", "r", "a", "b", "l", "e">>,
     <<"d", "e", "s", "c">>, <<"d", "i", "s", "t", "i", "n", "c", "t">>,
     <<"d", "o">>, <<"e", "l", "s", "e">>, <<"e", "n", "d">>,
     <<"e", "x", "c", "e", "p", "t">>, <<"f", "a", "l", "s", "e">>,
     <<"f", "e", "t", "c", "h">>, <<"f", "o", "r">>,
     <<"f", "o", "r", "e", "i", "g", "n">>, <<"f", "r", "e", "e", "z", "e">>,
     <<"f", "r", "o", "m">>, <<"f", "u", "l", "l">>,
     <<"g", "r", "a", "n", "t">>, <<"g", "r", "o", "u", "p">>,
     <<"h", "a", "v", "i", "n", "g">>, <<"i", "l", "i", "k", "e">>,
     <<"i", "n">>, <<"i", "n", "i", "t", "i", "a", "l", "l", "y">>,
     <<"i", "n", "n", "e", "r">>,
     <<"i", "n", "t", "e", "r", "s", "e", "c", "t">>, <<"i", "n", "t", "o">>,
     <<"i", "s">>, <<"i", "s", "n", "u", "l", "l">>, <<"j", "o", "i", "n">>,
     <<"l", "a", "t", "e", "r", "a", "l">>,
     <<"l", "e", "a", "d", "i", "n", "g">>, <<"l", "e", "f", "t">>,
     <<"l", "i", "k", "e">>, <<"l", "i", "m", "i", "t">>,
     <<"l", "o", "c", "a", "l", "t", "i", "m", "e">>,
     <<"l", "o", "c", "a", "l", "t", "i", "m", "e", "s", "t", "a", "m", "p">>,
     <<"n", "a", "t", "u", "r", "a", "l">>, <<"n", "o", "t">>,
     <<"n", "o", "t", "n", "u", "l", "l">>, <<"n", "u", "l", "l">>,
     <<"o", "f", "f", "s", "e", "t">>, <<"o", "n">>, <<"o", "n", "l", "y">>,
     <<"o", "r">>, <<"o", "r", "d", "e", "r">>, <<"o", "u", "t", "e", "r">>,
     <<"o", "v", "e", "r", "l", "a", "p", "s">>,
     <<"p", "l", "a", "c", "i", "n", "g">>,
     <<"p", "r", "i", "m", "a", "r", "y">>,
     <<"r", "e", "f", "e", "r", "e", "n", "c", "e", "s">>,
     <<"r", "e", "t", "u", "r", "n", "i", "n", "g">>,
     <<"r", "i", "g", "h", "t">>, <<"s", "e", "l", "e", "c", "t">>,
     <<"s", "e", "s", "s", "i", "o", "n", "_", "u", "s", "e", "r">>,
     <<"s", "i", "m", "i", "l", "a", "r">>, <<"s", "o", "m", "e">>,
     <<"s", "y", "m", "m", "e", "t", "r", "i", "c">>,
     <<"t", "a", "b", "l", "e">>,
     <<"t", "a", "b", "l", "e", "s", "a", "m", "p", "l", "e">>,
     <<"t", "h", "e", "n">>, <<"t", "o">>,
     <<"t", "r", "a", "i", "l", "i", "n", "g">>, <<"t", "r", "u", "e">>,
     <<"u", "n", "i", "o", "n">>, <<"u", "n", "i", "q", "u", "e">>,
     <<"u", "s", "e", "r">>, <<"u", "s", "i", "n", "g">>,
     <<"v", "a", "r", "i", "a", "d", "i", "c">>,
     <<"v", "e", "r", "b", "o", "s", "e">>, <<"w", "h", "e", "n">>,
     <<"w", "h", "e", "r", "e">>, <<"w", "i", "n", "d", "o", "w">>,
     <<"w", "i", "t", "h">>}

\* String.prototype.toLowerCase, character by character
LowerChar(ch) ==
    CASE ch = "A" -> "a" [] ch = "B" -> "b" [] ch = "C" -> "c" [] ch = "D" -> "d"
      [] ch = "E" -> "e" [] ch = "F" -> "f" [] ch = "G" -> "g" [] ch = "H" -> "h"
      [] ch = "I" -> "i" [] ch = "J" -> "j" [] ch = "K" -> "k" [] ch = "L" -> "l"
      [] ch = "M" -> "m" [] ch = "N" -> "n" [] ch = "O" -> "o" [] ch = "P" -> "p"
      [] ch = "Q" -> "q" [] ch = "R" -> "r" [] ch = "S" -> "s" [] ch = "T" -> "t"
      [] ch = "U" -> "u" [] ch = "V" -> "v" [] ch = "W" -> "w" [] ch = "X" -> "x"
      [] ch = "Y" -> "y" [] ch = "Z" -> "z" [] OTHER -> ch

LowerCased(identifier) ==
    [i \in 1..Len(identifier) |-> LowerChar(identifier[i])]

\* quoteIdentifier comparing the identifier itself with the keywords
quoteIdentifierCaseSensitive(identifier) ==
    IF \/ identifier \in reservedKeywords
       \/ \E i \in 1..Len(identifier) :
             identifier[i] \notin (Letters \cup UpperLetters \cup Digits \cup {"_"})
       \/ (identifier # << >> /\ identifier[1] \in Digits)
    THEN <<"\"">> \o identifier \o <<"\"">>
    ELSE identifier

quoteIdentifier(identifier) ==
    IF \/ LowerCased(identifier) \in reservedKeywords
       \/ \E i \in 1..Len(identifier) :
             identifier[i] \notin (Letters \cup UpperLetters \cup Digits \cup {"_"})
       \/ (identifier # << >> /\ identifier[1] \in Digits)
    THEN <<"\"">> \o identifier \o <<"\"">>
    ELSE identifier

RECURSIVE StringsOfLength(_)
StringsOfLength(n) ==
    IF n = 0 THEN {<< >>}
    ELSE {Append(v, ch) : v \in StringsOfLength(n - 1), ch \in CodecChars}

CodecStrings == UNION {StringsOfLength(n) : n \in 0..MaxLen}

Value(value) == [threw |-> FALSE, sql |-> << >>, value |-> value]

CodecInit ==
    /\ MetaIdle
    /\ TxIdle
    /\ StoreIdle
    /\ RunIdle
    /\ entityClasses = << >>
    /\ currentSchema = << >>
    /\ \E value \in CodecStrings : call = [fn |-> "none", value |-> value]
    /\ result = Returned(<< >>)

CallQuoteIdentifier ==
    /\ call.fn = "none"
    /\ call' = [fn |-> "quoteIdentifier", value |-> call.value]
    /\ result' = Value(quoteIdentifier(call.value))
    /\ UNCHANGED <<entityClasses, currentSchema, runVars, frameVars>>

CallEscapeSqlString ==
    /\ call.fn = "none"
    /\ call' = [fn |-> "escapeSqlString", value |-> call.value]
    /\ result' = Value(escapeSqlString(call.value))
    /\ UNCHANGED <<entityClasses, currentSchema, runVars, frameVars>>

CodecNext ==
    \/ CallQuoteIdentifier
    \/ CallEscapeSqlString

SpecCodec == CodecInit /\ [][CodecNext]_vars

(***************************************************************************)
(* C21: quoteIdentifier returns its argument as it is exactly when the     *)
(* argument is no reserved keyword whatever its case, holds only letters,  *)
(* digits and underscores and does not begin with a digit; every other     *)
(* argument comes back between two double quotes.                          *)
(***************************************************************************)
IsKeywordIgnoringCase(identifier) ==
    \E k \in reservedKeywords :
        /\ Len(k) = Len(identifier)
        /\ \A i \in 1..Len(k) :
              identifier[i] = k[i] \/ LowerChar(identifier[i]) = k[i]

PlainIdentifier(identifier) ==
    /\ ~IsKeywordIgnoringCase(identifier)
    /\ \A i \in 1..Len(identifier) :
          identifier[i] \in (Letters \cup UpperLetters \cup Digits \cup {"_"})
    /\ \A i \in 1..Len(identifier) : i = 1 => identifier[i] \notin Digits

C21_QuotedExactlyWhenNeeded ==
    call.fn = "quoteIdentifier" =>
        /\ ~result.threw
        /\ (result.value = call.value) <=> PlainIdentifier(call.value)
        /\ ~PlainIdentifier(call.value) =>
              result.value = <<"\"">> \o call.value \o <<"\"">>

\* a keyword written in mixed case comes back quoted
C21_Witness ==
    /\ call.fn = "quoteIdentifier"
    /\ call.value = <<"a", "S">>
    /\ result.value = <<"\"", "a", "S", "\"">>

\* an identifier of letters, digits and underscores comes back as it is
C21_WitnessPlain ==
    /\ call.fn = "quoteIdentifier"
    /\ call.value = <<"a", "_", "1">>
    /\ result.value = call.value

(***************************************************************************)
(* C22: escapeSqlString(v) is v with every single quote doubled, between   *)
(* two single quotes; taking the outer quotes off and replacing every      *)
(* doubled quote by one gives v back.                                      *)
(***************************************************************************)
\* inner.replace(/''/g, "'")
RECURSIVE UndoubleQuotes(_)
UndoubleQuotes(inner) ==
    IF inner = << >> THEN << >>
    ELSE IF Len(inner) >= 2 /\ inner[1] = "'" /\ inner[2] = "'"
         THEN <<"'">> \o UndoubleQuotes(SubSeq(inner, 3, Len(inner)))
         ELSE <<Head(inner)>> \o UndoubleQuotes(Tail(inner))

\* the places of the literal that hold the character at place i of v
PlacesBefore(v, i) ==
    i - 1 + Cardinality({j \in 1..(i - 1) : v[j] = "'"})

C22_EscapeDoublesAndRoundTrips ==
    call.fn = "escapeSqlString" =>
        LET v == call.value
            e == result.value
            inner == SubSeq(e, 2, Len(e) - 1)
        IN  /\ ~result.threw
            /\ Len(e) = Len(v) + 2 + Cardinality({j \in 1..Len(v) : v[j] = "'"})
            /\ e[1] = "'"
            /\ e[Len(e)] = "'"
            /\ \A i \in 1..Len(v) :
                  /\ inner[PlacesBefore(v, i) + 1] = v[i]
                  /\ v[i] = "'" => inner[PlacesBefore(v, i) + 2] = "'"
            /\ UndoubleQuotes(inner) = v

\* a value with two quotes in a row
C22_Witness ==
    /\ call.fn = "escapeSqlString"
    /\ call.value = <<"a", "'", "'">>
    /\ result.value = <<"'", "a", "'", "'", "'", "'", "'">>

(***************************************************************************)
(* The generators over snapshots that differ from the declaration: of one  *)
(* entity's table a snapshot holds any of the declared columns, each with  *)
(* the type, nullability, unique mark and default information_schema may   *)
(* report for it.                                                          *)
(***************************************************************************)
AlterClasses == {"User", "Parent", "Embedding", "Chunk"}

\* a row of information_schema.columns, column_default included
ColumnRow(column_name, data_type, is_nullable, is_unique, column_default) ==
    [column_name |-> column_name, data_type |-> data_type,
     is_nullable |-> is_nullable, is_unique |-> is_unique,
     column_default |-> column_default]

\* the rows the catalog may hold for a declared column
RowsFor(metadata) ==
    IF metadata.isVector
    THEN {ColumnRow(metadata.name, "USER-DEFINED", "YES", FALSE, NoDefault)}
    ELSE {ColumnRow(metadata.name, type, nullable, unique, default) :
            type \in {metadata.type, "TEXT", "integer"},
            nullable \in {"YES", "NO"},
            unique \in BOOLEAN,
            default \in {NoDefault, NowDefault}}

RECURSIVE SnapshotColumns(_)
SnapshotColumns(columns) ==
    IF columns = << >> THEN {<< >>}
    ELSE LET rest == SnapshotColumns(Tail(columns))
         IN  rest \cup {<<row>> \o r : row \in RowsFor(Head(columns)), r \in rest}

SnapshotsOf(c) ==
    LET columns == getAllColumnsFromHierarchy(c)
        Names(rows) == {rows[i].column_name : i \in 1..Len(rows)}
    IN  UNION {{TableInfo(rows,
                          SelectSeq(PrimaryKeyColumns(columns),
                                    LAMBDA n : n \in Names(rows)),
                          FkInfosOf(getMetadata("foreign_keys", c), columns, fks)) :
                  fks \in SUBSET FkKeysOn(c, Names(rows))} :
               rows \in SnapshotColumns(columns)}

AlterInit ==
    /\ MetaIdle
    /\ TxIdle
    /\ StoreIdle
    /\ RunIdle
    /\ \E c \in AlterClasses :
          /\ entityClasses = <<c>>
          /\ \/ currentSchema = << >>
             \/ \E tableInfo \in SnapshotsOf(c) :
                   currentSchema = (getTableName(c) :> tableInfo)
    /\ call = NoCall
    /\ result = Returned(<< >>)

SpecAlter == AlterInit /\ [][GenNext]_vars

\* a generator was called for the entity of the state, whose table the
\* snapshot holds
AlterReturned ==
    /\ call.fn \in {"generateAlterTableSQL", "generateMigrationSQL"}
    /\ ~result.threw
    /\ currentSchema # << >>

TheClass == entityClasses[1]

TheTable == currentSchema[getTableName(TheClass)]

\* the declared columns that are no vector columns and that the snapshot holds
PresentColumns ==
    {m \in AsMapping(DeclaredColumns(TheClass)) :
        ~m.isVector /\ HasColumnInfo(TheTable, m.name)}

(***************************************************************************)
(* C23: for every column declared unique that the snapshot holds without a *)
(* unique constraint, generateAlterTableSQL, and generateMigrationSQL for  *)
(* the existing table, emit ALTER TABLE <table> ADD CONSTRAINT             *)
(* <table>_<column>_key UNIQUE (<column>).                                 *)
(***************************************************************************)
AddsUnique(line, tableName, columnName) ==
    /\ line.kind \in {"ADD UNIQUE", "ADD CONSTRAINT"}
    /\ line.table = tableName
    /\ line.column = columnName
    /\ line.constraint = <<tableName, columnName, "key">>

C23_MissingUniqueConstraintAdded ==
    AlterReturned =>
        \A m \in PresentColumns :
            (m.unique /\ ~FindColumnInfo(TheTable, m.name).is_unique) =>
                \E k \in 1..Len(result.sql) :
                    AddsUnique(result.sql[k], getTableName(TheClass), m.name)

(***************************************************************************)
(* C24: for a declared column, no vector column, that the snapshot holds,  *)
(* generateAlterTableSQL emits SET NOT NULL exactly when the column is     *)
(* declared non-nullable and the snapshot says nullable, DROP NOT NULL     *)
(* exactly when it is declared nullable and the snapshot says not          *)
(* nullable, and a TYPE clause exactly when the declared and the           *)
(* introspected type differ once lower-cased; the unique mark and the      *)
(* default of the snapshot change nothing.                                 *)
(***************************************************************************)
\* the clauses the script holds for a column
ClausesFor(sql, tableName, columnName) ==
    UNION {{sql[k].modifications[m].clause :
              m \in {n \in 1..Len(sql[k].modifications) :
                       sql[k].modifications[n].column = columnName}} :
           k \in {j \in 1..Len(sql) :
                    sql[j].kind = "ALTER COLUMN" /\ sql[j].table = tableName}}

LowerCaseType(type) == IF type \in {"TEXT", "Text"} THEN "text" ELSE type

ExpectedClauses(m, row) ==
    (IF ~m.nullable /\ row.is_nullable = "YES" THEN {"SET NOT NULL"} ELSE {})
    \cup (IF m.nullable /\ row.is_nullable = "NO" THEN {"DROP NOT NULL"} ELSE {})
    \cup (IF LowerCaseType(m.type) # LowerCaseType(row.data_type)
          THEN {"TYPE"} ELSE {})

DeclaredVectorNames(c) ==
    {m.name : m \in {d \in AsMapping(DeclaredColumns(c)) : d.isVector}}

VectorLinesFor(sql, tableName, columnName) ==
    {k \in 1..Len(sql) :
        /\ sql[k].kind = "ADD VECTOR COLUMN"
        /\ sql[k].table = tableName
        /\ sql[k].column = columnName}

NamedInOrdinaryClause(sql, columnName) ==
    \/ \E k \in 1..Len(sql) :
          /\ sql[k].kind = "CREATE TABLE"
          /\ \E d \in 1..Len(sql[k].defs) :
                sql[k].defs[d].kind = "column" /\ sql[k].defs[d].name = columnName
    \/ \E k \in 1..Len(sql) : sql[k].kind = "ADD COLUMN" /\ sql[k].column = columnName
    \/ \E k \in 1..Len(sql) :
          /\ sql[k].kind = "ALTER COLUMN"
          /\ \E m \in 1..Len(sql[k].modifications) :
                sql[k].modifications[m].column = columnName

C25_VectorColumnsApart ==
    /\ (call.fn = "generateTableSQL" /\ ~result.threw) =>
          \A name \in DeclaredVectorNames(call.entityClass) :
             LET lines == VectorLinesFor(result.sql, getTableName(call.entityClass),
                                         name)
             IN  /\ ~NamedInOrdinaryClause(result.sql, name)
                 /\ Cardinality(lines) = 1
                 /\ \A k \in lines : k > 1 /\ result.sql[1].kind = "CREATE TABLE"
    /\ (call.fn = "generateAlterTableSQL" /\ ~result.threw) =>
          \A name \in DeclaredVectorNames(TheClass) :
             /\ ~NamedInOrdinaryClause(result.sql, name)
             /\ Cardinality(VectorLinesFor(result.sql, getTableName(TheClass), name))
                  = IF HasColumnInfo(TheTable, name) THEN 0 ELSE 1

(***************************************************************************)
(* C27: for a snapshot that holds some of the declared columns, each with  *)
(* the declared type and nullability, the statements of                    *)
(* generateAlterTableSQL leave the table with the definition that          *)
(* generateTableSQL gives it on an empty schema: the same columns, with    *)
(* the same type, nullability and unique mark, the same primary key and    *)
(* the same foreign keys.                                                  *)
(***************************************************************************)
\* the tables the foreign keys of the class refer to, as their classes
\* declare them
ReferencedTables(c) ==
    LET foreignKeys == getMetadata("foreign_keys", c)
        names == {foreignKeys[i].tableName : i \in 1..Len(foreignKeys)}
                 \ {getTableName(c)}
    IN  [t \in names |-> ExactTable(ClassOfTable(t))]

SnapshotAsDeclared ==
    \A m \in PresentColumns :
        LET row == FindColumnInfo(TheTable, m.name)
        IN  /\ row.data_type = m.type
            /\ row.is_nullable = IF m.nullable THEN "YES" ELSE "NO"

\* what a table definition says of its columns, keys and constraints
Definition(tableInfo) ==
    [columns |-> {[column_name |-> tableInfo.columns[i].column_name,
                   data_type |-> tableInfo.columns[i].data_type,
                   is_nullable |-> tableInfo.columns[i].is_nullable,
                   is_unique |-> tableInfo.columns[i].is_unique] :
                  i \in 1..Len(tableInfo.columns)},
     primaryKey |-> {tableInfo.primaryKey[i] : i \in 1..Len(tableInfo.primaryKey)},
     foreignKeys |-> {tableInfo.foreignKeys[i] : i \in 1..Len(tableInfo.foreignKeys)}]

C27_AlterAgreesWithCreate ==
    (/\ call.fn = "generateAlterTableSQL"
     /\ ~result.threw
     /\ ~generateTableSQL(TheClass, TRUE).threw
     /\ SnapshotAsDeclared) =>
        LET t == getTableName(TheClass)
            altered == Execute(currentSchema @@ ReferencedTables(TheClass), result.sql)
            created == Execute(ReferencedTables(TheClass),
                               generateTableSQL(TheClass, TRUE).sql)
        IN  /\ altered.ok
            /\ created.ok
            /\ Definition(altered.tables[t]) = Definition(created.tables[t])

(***************************************************************************)
(* C26: executed statement by statement on a database in the state of the  *)
(* snapshot, the script of generateMigrationSQL succeeds, and the script   *)
(* generated for the state it leaves holds no statement that creates or    *)
(* alters a table or adds a constraint.  Every table a foreign key names   *)
(* is a table of the entities or of the snapshot.                          *)
(***************************************************************************)
ReferencesResolved ==
    \A i \in 1..Len(entityClasses) :
        LET foreignKeys == getMetadata("foreign_keys", entityClasses[i])
        IN  \A k \in 1..Len(foreignKeys) :
               foreignKeys[k].tableName
                   \in (TablesOf(entityClasses) \cup DOMAIN currentSchema)

C26_ConvergesInOneStep ==
    (MigrationReturned /\ ReferencesResolved) =>
        LET run == Execute(currentSchema, result.sql)
        IN  /\ run.ok
            /\ LET again == generateMigrationSQL(entityClasses, run.tables)
               IN  /\ ~again.threw
                   /\ Count(again.sql, IsStatement) = 0

(***************************************************************************)
(* runMigration's transaction on the acquired client                       *)
(***************************************************************************)
\* the number of times the client was sent stmt
ClientSent(stmt) ==
    Cardinality({k \in 1..Len(sent) : sent[k] = Log("client", stmt)})

EndingCommands == ClientSent("COMMIT") + ClientSent("ROLLBACK")

\* C28: in a non-dry-run runMigration the BEGIN sent on the client is followed
\* by exactly one transaction-ending command on that client, one COMMIT or one
\* ROLLBACK, never both and never a second COMMIT, and once the run is over the
\* client has been released
C28_OneTransactionEnd ==
    (~dryRun /\ ClientSent("BEGIN") > 0) =>
        /\ EndingCommands <= 1
        /\ (pc \in {"done", "exited"}) =>
              /\ EndingCommands = 1
              /\ pc = "done"

(***************************************************************************)
(* deleteBy                                                                *)
(***************************************************************************)
\* the entries of the criteria whose value is not undefined, in their order
DefinedCriteria(criteria) == SelectSeq(criteria, LAMBDA e : e.value # Undefined)

\* the property keys the class and its ancestors decorate with @Column
RECURSIVE DecoratedKeys(_)
DecoratedKeys(c) ==
    IF c = "Function" THEN {}
    ELSE Keys(OwnColumns[c]) \cup DecoratedKeys(Parent[c])

RECURSIVE DecoratedName(_, _)
DecoratedName(c, key) ==
    IF HasKey(OwnColumns[c], key) THEN Lookup(OwnColumns[c], key).name
    ELSE DecoratedName(Parent[c], key)

C29_WitnessNothingDefined ==
    /\ call.fn = "deleteBy"
    /\ Len(call.criteria) > 0
    /\ DefinedCriteria(call.criteria) = << >>
    /\ result.returned = 0

\* a call with a criterion on an undecorated property threw
C29_WitnessUndecorated ==
    /\ call.fn = "deleteBy"
    /\ \E j \in 1..Len(call.criteria) :
          /\ call.criteria[j].key = UndecoratedKey
          /\ call.criteria[j].value # Undefined
    /\ result.threw

(***************************************************************************)
(* storeEmbedding.  Every call takes a connection of its own from the      *)
(* pool and sends its statements outside a transaction, so each statement  *)
(* commits by itself and the calls' statements interleave.  The embedding  *)
(* of a call stands for its vector after ensureVectorDimensions and        *)
(* formatVector; the call made k-th stores embedding k.  The repository    *)
(* holds no definition of table entry_embedding: whether entry_id carries  *)
(* a unique constraint is left open.                                       *)
(***************************************************************************)
\* most storeEmbedding calls of a behaviour
MaxStores == 3

\* the entryId the calls are made for
EntryId == "e1"

EmbeddingRow(id, entryId, embedding) ==
    [id |-> id, entryId |-> entryId, embedding |-> embedding]

\* SELECT id FROM entry_embedding WHERE entry_id = $1
RowsOf(entryId) == {row \in entryEmbedding : row.entryId = entryId}

StoreInit ==
    /\ MetaIdle
    /\ TxIdle
    /\ RunIdle
    /\ entityClasses = << >>
    /\ currentSchema = << >>
    /\ call = NoCall
    /\ result = Returned(<< >>)
    /\ stores = << >>
    /\ entry \in SUBSET {EntryId}
    /\ entryEmbedding \in {{}} \cup {{EmbeddingRow(0, e, 0)} : e \in entry}
    /\ uniqueEntryId \in BOOLEAN

StoreFrame == UNCHANGED <<genVars, runVars, metaVars, txVars>>

\* storeEmbedding(entryId, embedding): localClient = await client.connect()
storeEmbedding ==
    /\ Len(stores) < MaxStores
    /\ stores' = Append(stores, [pc |-> "entryExists",
                                 embedding |-> Len(stores) + 1])
    /\ UNCHANGED <<entry, entryEmbedding, uniqueEntryId>>
    /\ StoreFrame

\* SELECT 1 FROM entry WHERE id = $1; no row: throw, and finally releases
SelectEntry ==
    /\ \E k \in 1..Len(stores) :
        /\ stores[k].pc = "entryExists"
        /\ stores' = [stores EXCEPT ![k].pc =
                         IF EntryId \in entry THEN "existingEmbedding"
                         ELSE "threw"]
    /\ UNCHANGED <<entry, entryEmbedding, uniqueEntryId>>
    /\ StoreFrame

\* SELECT id FROM entry_embedding WHERE entry_id = $1, and the branch taken
SelectEntryEmbedding ==
    /\ \E k \in 1..Len(stores) :
        /\ stores[k].pc = "existingEmbedding"
        /\ stores' = [stores EXCEPT ![k].pc =
                         IF Cardinality(RowsOf(EntryId)) > 0 THEN "update"
                         ELSE "insert"]
    /\ UNCHANGED <<entry, entryEmbedding, uniqueEntryId>>
    /\ StoreFrame

\* UPDATE entry_embedding SET embedding = $1 ... WHERE entry_id = $2; return
UpdateEntryEmbedding ==
    /\ \E k \in 1..Len(stores) :
        /\ stores[k].pc = "update"
        /\ entryEmbedding' =
              {IF row.entryId = EntryId
               THEN [row EXCEPT !.embedding = stores[k].embedding]
               ELSE row : row \in entryEmbedding}
        /\ stores' = [stores EXCEPT ![k].pc = "returned"]
    /\ UNCHANGED <<entry, uniqueEntryId>>
    /\ StoreFrame

\* INSERT INTO entry_embedding (id, entry_id, embedding, ...) VALUES
\* (uuidv4(), ...); a unique constraint on entry_id rejects a second row
InsertEntryEmbedding ==
    /\ \E k \in 1..Len(stores) :
        /\ stores[k].pc = "insert"
        /\ IF uniqueEntryId /\ RowsOf(EntryId) # {}
           THEN /\ stores' = [stores EXCEPT ![k].pc = "threw"]
                /\ UNCHANGED entryEmbedding
           ELSE /\ entryEmbedding' =
                     entryEmbedding
                       \cup {EmbeddingRow(k, EntryId, stores[k].embedding)}
                /\ stores' = [stores EXCEPT ![k].pc = "returned"]
    /\ UNCHANGED <<entry, uniqueEntryId>>
    /\ StoreFrame

StoreNext ==
    \/ storeEmbedding
    \/ SelectEntry
    \/ SelectEntryEmbedding
    \/ UpdateEntryEmbedding
    \/ InsertEntryEmbedding

SpecStore == StoreInit /\ [][StoreNext]_vars

\* C30: storeEmbedding is an upsert per entry: once the calls made for an
\* existing entry, one after the other or at the same time on different
\* connections, are over, entry_embedding holds at most one row for the entry,
\* and that row carries the embedding of one of the calls
C30_UpsertPerEntry ==
    (/\ EntryId \in entry
     /\ Len(stores) > 0
     /\ \A k \in 1..Len(stores) : stores[k].pc \in {"returned", "threw"}) =>
        /\ Cardinality(RowsOf(EntryId)) <= 1
        /\ \A row \in RowsOf(EntryId) :
              \E k \in 1..Len(stores) : row.embedding = stores[k].embedding

====
